---- MODULE Spec2Model ----
(***************************************************************************)
(* PixelRig: the bone store (useBoneStore.ts), the scene's pointer state   *)
(* machine and the bind / deform pipeline (SceneManager.ts).               *)
(*                                                                         *)
(* Numbers.  Coordinates and lengths are integers.  Angles are counted in  *)
(* quarter turns (1 = PI/2), so Math.cos / Math.sin are exact on them; a   *)
(* rotation is never normalised by the code and is not normalised here.    *)
(* Math.atan2 is modelled on the axes only (where it is a whole number of  *)
(* quarter turns); pointer events whose angle would be read off the axes   *)
(* are not drawn.  Math.sqrt is modelled on the axes (|dx| + |dy|);        *)
(* comparisons of distances compare the squares.                           *)
(***************************************************************************)
EXTENDS Integers, Sequences, FiniteSets, TLC

VARIABLES
    \* ---- useBoneStore state
    bones,            \* Bone[]  (sequence of bone records, insertion order)
    activeBoneId,     \* string | null
    activeTool,       \* 'select' | 'addJoint' | 'addBone'
    isBound,          \* boolean
    spriteDataUrl,    \* string | null
    bindPose,         \* Record<id, {position, rotation}> | null
    nextId,           \* the next id uuidv4() hands out (ids are never reused)
    \* ---- SceneManager state
    currentMesh,      \* Mesh | null (a mesh is named by the loadSprite call that made it)
    spriteContainer,  \* the meshes that are children of spriteContainer
    vertices,         \* the aPosition buffer of currentMesh (flat x,y,x,y,...)
    bindData,         \* {boneId, localX, localY, index}[] | null
    originalVertices, \* Float32Array | null
    isDragging, dragMode, dragStartAngle, dragStartPos, dragBoneStartPos,
    dragBoneId, pendingJoint,
    pendingLoads,     \* loadSprite calls waiting in `await Assets.load`
    loadsStarted,     \* number of loadSprite calls made so far
    editsLeft,        \* number of updateBone calls the model still makes
    meshFilters,      \* currentMesh.filters
    overlay,          \* what BoneRenderer's graphics hold, one drawing per bone; null
                      \* where the overlay is left out of the model
    \* ---- useBoneStore generation state, and Canvas's generation effect
    generatedSpriteUrl, \* string | null
    generationError,    \* string | null
    isGenerating,       \* boolean
    generationRequestId, \* number
    effectRequestId,  \* the generationRequestId the effect last ran for
    exportRun,        \* the run() waiting in `await exportSprite()`, or null
    \* ---- the pixel-snap fragment shader, for one fragment
    vTextureCoord,    \* in vec2 vTextureCoord, in units of 1 / UvSteps
    uResolution,      \* uniform float uResolution
    snappedCell,      \* floor(vTextureCoord * uResolution), or null before main() ran
    \* ---- history, for stating the claims only
    lastOp,           \* the last handler, when it was a pointer event, removeBone,
                      \* the bind button or, with a bound skeleton, resetPose or a frame
    dragStart,        \* the drag in progress: the bone, its position and rotation and the
                      \* pointer position at pointer-down, the pointer-moves handled since
    bindTimeBones,    \* the bones as they were when the skeleton was bound
    preBindVertices   \* the vertex buffer as it was just before a successful bind

vars == << bones, activeBoneId, activeTool, isBound, spriteDataUrl, bindPose, nextId,
           currentMesh, spriteContainer, vertices, bindData, originalVertices,
           isDragging, dragMode, dragStartAngle, dragStartPos, dragBoneStartPos,
           dragBoneId, pendingJoint, pendingLoads, loadsStarted, editsLeft,
           meshFilters, overlay,
           generatedSpriteUrl, generationError, isGenerating, generationRequestId,
           effectRequestId, exportRun,
           vTextureCoord, uResolution, snappedCell,
           lastOp, dragStart, bindTimeBones, preBindVertices >>

storeVars == << bones, activeBoneId, activeTool, isBound, spriteDataUrl, bindPose, nextId >>
dragVars == << isDragging, dragMode, dragStartAngle, dragStartPos, dragBoneStartPos, dragBoneId >>
meshVars == << currentMesh, spriteContainer, vertices, bindData, originalVertices >>
loadVars == << pendingLoads, loadsStarted >>
histVars == << bindTimeBones, preBindVertices >>
renderVars == << meshFilters, overlay >>
genVars == << generatedSpriteUrl, generationError, isGenerating, generationRequestId,
             effectRequestId, exportRun >>
shaderVars == << vTextureCoord, uResolution, snappedCell >>

(***************************************************************************)
(* Bounds of the model.                                                    *)
(***************************************************************************)
MaxBones == 2        \* bones the pointer creates (ids 1..MaxBones)
MaxLoads == 1        \* loadSprite calls ever made
MaxEdits == 1        \* updateBone calls made from Init
ForestBones == 3     \* bones of the largest skeleton InitPose starts from
MaxPoseEdits == 2    \* updateBone calls made from InitPose
MeshSegments == 1    \* segments per side of the plane mesh (32 in the code)

(***************************************************************************)
(* Program constants.                                                      *)
(***************************************************************************)
canvasSize == 1024   \* width and height of the plane the mesh spans
virtualResolution == 64 \* the store's virtualResolution
maxDist == 20        \* pick radius of findClosestBone
defaultRadius == 50  \* radius given to every bone the pointer creates

\* null, for ids
Null == 0
\* null, for urls
NullUrl == Null

\* lastOp: the handler, its argument, the selection it found, and how many
\* bones (removeBone, resetPose) or buffer entries (unbind, a frame) it changed
Op(op, id, active, n) ==
    [ op |-> op, id |-> id, activeBoneId |-> active, changed |-> n ]
\* what lastOp holds after any other handler
NoOp == Op("other", Null, Null, 0)

\* optional values: <<>> is null, <<v>> is the value v
None == << >>
Some(v) == << v >>
IsSome(o) == Len(o) > 0
Get(o) == o[1]

\* pointer positions and the values typed into the property panel
Coords == {0, 10}
Points == { [x |-> 0, y |-> 0], [x |-> 0, y |-> 40] }
\* data urls: one per file that is read, named by a number
Urls == 1..MaxLoads
Tools == {"select", "addJoint", "addBone"}
PanelRotations == {0, 1}
PanelLengths == {0, 10}

Abs(n) == IF n < 0 THEN -n ELSE n

(***************************************************************************)
(* Math.cos, Math.sin of k quarter turns.                                  *)
(***************************************************************************)
Cos(k) == CASE k % 4 = 0 -> 1 [] k % 4 = 1 -> 0 [] k % 4 = 2 -> -1 [] OTHER -> 0
Sin(k) == CASE k % 4 = 0 -> 0 [] k % 4 = 1 -> 1 [] k % 4 = 2 -> 0 [] OTHER -> -1

\* the points an angle or a length may be read between
OnAxis(x1, y1, x2, y2) == x1 = x2 \/ y1 = y2

\* Math.atan2 with its arguments exchanged: atan2(x2 - x1, y2 - y1)
angleBetween_swapped(x1, y1, x2, y2) ==
    CASE x2 = x1 /\ y2 >= y1 -> 0
      [] y2 = y1 /\ x2 > x1 -> 1
      [] x2 = x1 /\ y2 < y1 -> 2
      [] OTHER -> -1

\* utils/math.ts angleBetween: Math.atan2(y2 - y1, x2 - x1), in quarter turns
angleBetween(x1, y1, x2, y2) ==
    CASE y2 = y1 /\ x2 >= x1 -> 0
      [] x2 = x1 /\ y2 > y1 -> 1
      [] y2 = y1 /\ x2 < x1 -> 2
      [] OTHER -> -1

\* the square of utils/math.ts distance
distanceSq(x1, y1, x2, y2) == (x2 - x1) * (x2 - x1) + (y2 - y1) * (y2 - y1)

\* utils/math.ts distance, between points with OnAxis
distance(x1, y1, x2, y2) == Abs(x2 - x1) + Abs(y2 - y1)

(***************************************************************************)
(* useBoneStore                                                            *)
(***************************************************************************)
\* bones.find((b) => b.id === id)
RECURSIVE FindFrom(_, _, _)
FindFrom(bs, id, i) ==
    IF i > Len(bs) THEN None
    ELSE IF bs[i].id = id THEN Some(bs[i])
    ELSE FindFrom(bs, id, i + 1)
\* a find that falls back to the first bone when no bone has the id
find_orFirst(bs, id) ==
    IF IsSome(FindFrom(bs, id, 1)) THEN FindFrom(bs, id, 1)
    ELSE IF Len(bs) > 0 THEN Some(bs[1]) ELSE None

find(bs, id) == FindFrom(bs, id, 1)

BoneIds(bs) == { bs[i].id : i \in 1..Len(bs) }

\* `Bone_${boneCount + 1}`
BoneName(n) == << "Bone", n >>
Renamed == << "Renamed", 0 >>

\* addBone: append a bone with a fresh id and a generated name
\* addBone with the new bone put first: [bone, ...state.bones]
addBone_prepend(bs, id, boneData) ==
    << [ id |-> id, name |-> BoneName(Len(bs) + 1),
         parentId |-> boneData.parentId, position |-> boneData.position,
         rotation |-> boneData.rotation, length |-> boneData.length,
         radius |-> boneData.radius ] >> \o bs

addBone(bs, id, boneData) ==
    Append(bs, [ id |-> id, name |-> BoneName(Len(bs) + 1),
                 parentId |-> boneData.parentId, position |-> boneData.position,
                 rotation |-> boneData.rotation, length |-> boneData.length,
                 radius |-> boneData.radius ])

\* collectChildren without its recursion: the bone alone
collectChildren_self(bs, parentId) == {parentId}

\* collectChildren without its recursion: the bone and its direct children
collectChildren_direct(bs, parentId) ==
    {parentId} \cup { bs[i].id : i \in { j \in 1..Len(bs) : bs[j].parentId = parentId } }

\* removeBone's collectChildren(parentId): the ids it adds to toRemove
RECURSIVE collectChildren(_, _)
collectChildren(bs, parentId) ==
    LET children == { bs[i].id : i \in { j \in 1..Len(bs) : bs[j].parentId = parentId } }
        RECURSIVE Each(_)
        Each(S) == IF S = {} THEN {}
                   ELSE LET c == CHOOSE c \in S : TRUE
                        IN  collectChildren(bs, c) \cup Each(S \ {c})
    IN  {parentId} \cup Each(children)

\* removeBone clearing the selection only when the removed bone itself is active
removeBone_selfOnly(bs, active, id) ==
    LET toRemove == collectChildren(bs, id)
    IN  [ bones |-> SelectSeq(bs, LAMBDA b : b.id \notin toRemove),
          activeBoneId |-> IF active = id THEN Null ELSE active ]

\* removeBone leaving the selection as it is
removeBone_keepsSelection(bs, active, id) ==
    LET toRemove == collectChildren(bs, id)
    IN  [ bones |-> SelectSeq(bs, LAMBDA b : b.id \notin toRemove),
          activeBoneId |-> active ]

\* removeBone: the new bones and the new activeBoneId
removeBone(bs, active, id) ==
    LET toRemove == collectChildren(bs, id)
    IN  [ bones |-> SelectSeq(bs, LAMBDA b : b.id \notin toRemove),
          activeBoneId |-> IF active # Null /\ active \in toRemove THEN Null ELSE active ]

\* { ...b, ...updates }
Merge(b, updates) ==
    [ f \in DOMAIN b |-> IF f \in DOMAIN updates THEN updates[f] ELSE b[f] ]

\* updateBone merging the updates into every bone
RECURSIVE updateFrom_everyBone(_, _, _, _)
updateFrom_everyBone(bs, i, id, updates) ==
    IF i > Len(bs) THEN << >>
    ELSE << Merge(bs[i], updates) >> \o updateFrom_everyBone(bs, i + 1, id, updates)

\* updateBone: { ...b, ...updates } on the bone named id
RECURSIVE updateFrom(_, _, _, _)
updateFrom(bs, i, id, updates) ==
    IF i > Len(bs) THEN << >>
    ELSE << IF bs[i].id = id THEN Merge(bs[i], updates) ELSE bs[i] >>
         \o updateFrom(bs, i + 1, id, updates)
updateBone(bs, id, updates) == updateFrom(bs, 1, id, updates)

\* applyFKRotation with a propagation that writes: the delta is added to the
\* rotation of the target and of every descendant
applyFKRotation_propagates(bs, boneId, deltaRotation) ==
    IF ~IsSome(find(bs, boneId)) THEN bs
    ELSE [ i \in 1..Len(bs) |->
             IF bs[i].id \in collectChildren(bs, boneId)
             THEN [ bs[i] EXCEPT !.rotation = @ + deltaRotation ] ELSE bs[i] ]

\* utils/math applyFKRotation: a copy of the bones with the delta added to
\* the target's rotation; its propagate() walks the descendants and writes
\* nothing
applyFKRotation(bs, boneId, deltaRotation) ==
    IF ~IsSome(find(bs, boneId)) THEN bs
    ELSE LET t == CHOOSE i \in 1..Len(bs) :
                      bs[i].id = boneId /\ \A j \in 1..(i - 1) : bs[j].id # boneId
         IN  [ bs EXCEPT ![t].rotation = @ + deltaRotation ]

\* a bindPose that holds the rotations and no positions
snapshotPose_noPosition(bs) ==
    [ id \in BoneIds(bs) |->
        [ position |-> [ x |-> 0, y |-> 0 ], rotation |-> Get(find(bs, id)).rotation ] ]

\* setBound(true)'s bindPose: every bone's position and rotation by id
snapshotPose(bs) ==
    [ id \in BoneIds(bs) |->
        LET b == Get(find(bs, id)) IN [ position |-> b.position, rotation |-> b.rotation ] ]

\* resetPose restoring the rotation alone
RECURSIVE resetFrom_rotationOnly(_, _, _)
resetFrom_rotationOnly(bs, i, pose) ==
    IF i > Len(bs) THEN << >>
    ELSE << IF bs[i].id \notin DOMAIN pose THEN bs[i]
            ELSE [ bs[i] EXCEPT !.rotation = pose[bs[i].id].rotation ] >>
         \o resetFrom_rotationOnly(bs, i + 1, pose)

\* resetPose: the new bones
RECURSIVE resetFrom(_, _, _)
resetFrom(bs, i, pose) ==
    IF i > Len(bs) THEN << >>
    ELSE << IF bs[i].id \notin DOMAIN pose THEN bs[i]
            ELSE [ bs[i] EXCEPT !.position = pose[bs[i].id].position,
                                !.rotation = pose[bs[i].id].rotation ] >>
         \o resetFrom(bs, i + 1, pose)
\* resetPose falling back to the rest rotation when there is no bindPose
resetPose_withoutSnapshot(bs, pose) ==
    IF ~IsSome(pose) THEN [ i \in 1..Len(bs) |-> [ bs[i] EXCEPT !.rotation = 0 ] ]
    ELSE resetFrom(bs, 1, Get(pose))

resetPose(bs, pose) == IF ~IsSome(pose) THEN bs ELSE resetFrom(bs, 1, Get(pose))

\* the chain built with push instead of unshift: the bone first, the root last
RECURSIVE chainOf_push(_, _)
chainOf_push(bs, current) ==
    IF current.parentId = Null THEN << current >>
    ELSE LET p == find(bs, current.parentId)
         IN  IF IsSome(p) THEN << current >> \o chainOf_push(bs, Get(p)) ELSE << current >>

\* getWorldTransform's chain: the bone and its ancestors, root first
RECURSIVE chainOf(_, _)
chainOf(bs, current) ==
    IF current.parentId = Null THEN << current >>
    ELSE LET p == find(bs, current.parentId)
         IN  IF IsSome(p) THEN Append(chainOf(bs, Get(p)), current) ELSE << current >>

\* the fold adding the bone's rotation before it rotates the bone's position
RECURSIVE foldChain_rotateFirst(_, _, _)
foldChain_rotateFirst(chain, i, w) ==
    IF i > Len(chain) THEN w
    ELSE LET b == chain[i]
             cos == Cos(w.rotation + b.rotation)
             sin == Sin(w.rotation + b.rotation)
         IN  foldChain_rotateFirst(chain, i + 1,
                 [ x |-> w.x + (cos * b.position.x - sin * b.position.y),
                   y |-> w.y + (sin * b.position.x + cos * b.position.y),
                   rotation |-> w.rotation + b.rotation ])

\* getWorldTransform's fold over the chain, from (0, 0, 0)
RECURSIVE foldChain(_, _, _)
foldChain(chain, i, w) ==
    IF i > Len(chain) THEN w
    ELSE LET b == chain[i]
             cos == Cos(w.rotation)
             sin == Sin(w.rotation)
         IN  foldChain(chain, i + 1,
                 [ x |-> w.x + (cos * b.position.x - sin * b.position.y),
                   y |-> w.y + (sin * b.position.x + cos * b.position.y),
                   rotation |-> w.rotation + b.rotation ])

getWorldTransform(bs, boneId) ==
    LET bone == find(bs, boneId)
    IN  IF ~IsSome(bone) THEN [ x |-> 0, y |-> 0, rotation |-> 0 ]
        ELSE foldChain(chainOf(bs, Get(bone)), 1, [ x |-> 0, y |-> 0, rotation |-> 0 ])

(***************************************************************************)
(* SceneManager                                                            *)
(***************************************************************************)
\* the loop with <= for <: on a tie the endpoint scanned later wins
RECURSIVE closestFrom_tieToLater(_, _, _, _, _)
closestFrom_tieToLater(bs, i, x, y, closest) ==
    IF i > Len(bs) THEN closest
    ELSE LET bone == bs[i]
             world == getWorldTransform(bs, bone.id)
             d == distanceSq(world.x, world.y, x, y)
             c1 == IF d < maxDist * maxDist /\ (~IsSome(closest) \/ d <= Get(closest).distSq)
                   THEN Some([ id |-> bone.id, distSq |-> d, attach |-> "origin" ])
                   ELSE closest
             endX == world.x + Cos(world.rotation) * bone.length
             endY == world.y + Sin(world.rotation) * bone.length
             dEnd == distanceSq(endX, endY, x, y)
             c2 == IF bone.length > 0 /\ dEnd < maxDist * maxDist
                      /\ (~IsSome(c1) \/ dEnd <= Get(c1).distSq)
                   THEN Some([ id |-> bone.id, distSq |-> dEnd, attach |-> "end" ])
                   ELSE c1
         IN  closestFrom_tieToLater(bs, i + 1, x, y, c2)

\* the loop without its end point test: only a bone's origin can be picked
RECURSIVE closestFrom_originOnly(_, _, _, _, _)
closestFrom_originOnly(bs, i, x, y, closest) ==
    IF i > Len(bs) THEN closest
    ELSE LET world == getWorldTransform(bs, bs[i].id)
             d == distanceSq(world.x, world.y, x, y)
         IN  closestFrom_originOnly(bs, i + 1, x, y,
                 IF d < maxDist * maxDist /\ (~IsSome(closest) \/ d < Get(closest).distSq)
                 THEN Some([ id |-> bs[i].id, distSq |-> d, attach |-> "origin" ])
                 ELSE closest)

\* findClosestBone's loop: closest is null or {id, dist, attach}, with the
\* square of dist kept in distSq
RECURSIVE closestFrom(_, _, _, _, _)
closestFrom(bs, i, x, y, closest) ==
    IF i > Len(bs) THEN closest
    ELSE LET bone == bs[i]
             world == getWorldTransform(bs, bone.id)
             d == distanceSq(world.x, world.y, x, y)
             c1 == IF d < maxDist * maxDist /\ (~IsSome(closest) \/ d < Get(closest).distSq)
                   THEN Some([ id |-> bone.id, distSq |-> d, attach |-> "origin" ])
                   ELSE closest
             endX == world.x + Cos(world.rotation) * bone.length
             endY == world.y + Sin(world.rotation) * bone.length
             dEnd == distanceSq(endX, endY, x, y)
             c2 == IF bone.length > 0 /\ dEnd < maxDist * maxDist
                      /\ (~IsSome(c1) \/ dEnd < Get(c1).distSq)
                   THEN Some([ id |-> bone.id, distSq |-> dEnd, attach |-> "end" ])
                   ELSE c1
         IN  closestFrom(bs, i + 1, x, y, c2)

\* findClosestBone without a miss: the first bone when nothing is in radius
findClosestBone_neverNull(bs, x, y) ==
    LET closest == closestFrom(bs, 1, x, y, None)
    IN  IF IsSome(closest)
        THEN Some([ id |-> Get(closest).id, attach |-> Get(closest).attach ])
        ELSE IF Len(bs) > 0 THEN Some([ id |-> bs[1].id, attach |-> "origin" ])
        ELSE None

\* findClosestBone: null or {id, attach}
findClosestBone(bs, x, y) ==
    LET closest == closestFrom(bs, 1, x, y, None)
    IN  IF IsSome(closest)
        THEN Some([ id |-> Get(closest).id, attach |-> Get(closest).attach ])
        ELSE None

\* createPlaneGeometry's positions: (segX + 1) * (segY + 1) vertices, row by row
createPlaneGeometry(width, height, segX, segY) ==
    LET totalVerts == (segX + 1) * (segY + 1)
        coord(k) == LET i == (k - 1) \div 2
                        x == i % (segX + 1)
                        y == i \div (segX + 1)
                    IN  IF (k - 1) % 2 = 0 THEN (x * width) \div segX
                                           ELSE (y * height) \div segY
        RECURSIVE Fill(_)
        Fill(k) == IF k > totalVerts * 2 THEN << >> ELSE << coord(k) >> \o Fill(k + 1)
    IN  Fill(1)

\* the aPosition attribute: two floats per vertex, tightly packed
stride == 2
offset == 0

\* the inner loop with <= for <: on a tie the later bone wins
RECURSIVE closestBoneFrom_lastWins(_, _, _, _, _)
closestBoneFrom_lastWins(bs, j, vx, vy, best) ==
    IF j > Len(bs) THEN best
    ELSE LET world == getWorldTransform(bs, bs[j].id)
             d == distanceSq(world.x, world.y, vx, vy)
         IN  closestBoneFrom_lastWins(bs, j + 1, vx, vy,
                 IF ~IsSome(best) \/ d <= Get(best).distSq
                 THEN Some([ id |-> bs[j].id, distSq |-> d, world |-> world ])
                 ELSE best)

\* bindSkeleton's inner loop: the bone nearest to (vx, vy), null or {id, distSq, world}
RECURSIVE closestBoneFrom(_, _, _, _, _)
closestBoneFrom(bs, j, vx, vy, best) ==
    IF j > Len(bs) THEN best
    ELSE LET world == getWorldTransform(bs, bs[j].id)
             d == distanceSq(world.x, world.y, vx, vy)
         IN  closestBoneFrom(bs, j + 1, vx, vy,
                 IF ~IsSome(best) \/ d < Get(best).distSq
                 THEN Some([ id |-> bs[j].id, distSq |-> d, world |-> world ])
                 ELSE best)

\* the local offset without the rotation by -closestWorld.rotation
localOffset_unrotated(vx, vy, closestWorld) ==
    [ x |-> vx - closestWorld.x, y |-> vy - closestWorld.y ]

\* bindSkeleton's local offset of vertex (vx, vy) in the frame of closestWorld
localOffset(vx, vy, closestWorld) ==
    LET dx == vx - closestWorld.x
        dy == vy - closestWorld.y
        cos == Cos(-closestWorld.rotation)
        sin == Sin(-closestWorld.rotation)
    IN  [ x |-> cos * dx - sin * dy, y |-> sin * dx + cos * dy ]

\* bindSkeleton's outer loop from buffer index i (0-based, as in the code)
RECURSIVE bindFrom(_, _, _)
bindFrom(bs, verts, i) ==
    IF i >= Len(verts) THEN << >>
    ELSE LET vx == verts[i + 1]
             vy == verts[i + 2]
             best == closestBoneFrom(bs, 1, vx, vy, None)
         IN  IF IsSome(best)
             THEN << [ boneId |-> Get(best).id,
                       localX |-> localOffset(vx, vy, Get(best).world).x,
                       localY |-> localOffset(vx, vy, Get(best).world).y,
                       index |-> i ] >> \o bindFrom(bs, verts, i + stride)
             ELSE bindFrom(bs, verts, i + stride)

\* updateDeformation's nx, ny: the local offset carried by the bone's world transform
deformedVertex(world, localX, localY) ==
    LET cos == Cos(world.rotation)
        sin == Sin(world.rotation)
    IN  [ x |-> world.x + (cos * localX - sin * localY),
          y |-> world.y + (sin * localX + cos * localY) ]

\* updateDeformation's loop over bindData from entry i on
RECURSIVE deformFrom(_, _, _, _)
deformFrom(bs, data, i, verts) ==
    IF i > Len(data) THEN verts
    ELSE LET world == getWorldTransform(bs, data[i].boneId)
             n == deformedVertex(world, data[i].localX, data[i].localY)
         IN  deformFrom(bs, data, i + 1,
                 [ verts EXCEPT ![data[i].index + 1] = n.x, ![data[i].index + 2] = n.y ])

updateDeformation(bs, mesh, data, verts) ==
    IF ~IsSome(mesh) \/ ~IsSome(data) THEN verts
    ELSE deformFrom(bs, Get(data), 1, verts)

\* draw with every bone in the plain style, the active one too
draw_noHighlight(bs, activeId) ==
    [ i \in 1..Len(bs) |->
        LET world == getWorldTransform(bs, bs[i].id)
        IN  [ id |-> bs[i].id, x |-> world.x, y |-> world.y,
              endX |-> world.x + Cos(world.rotation) * bs[i].length,
              endY |-> world.y + Sin(world.rotation) * bs[i].length,
              isActive |-> FALSE ] ]

\* BoneRenderer.draw: the graphics are cleared, then every bone is drawn from
\* its world transform, the active bone in the highlight style
draw(bs, activeId) ==
    [ i \in 1..Len(bs) |->
        LET world == getWorldTransform(bs, bs[i].id)
        IN  [ id |-> bs[i].id, x |-> world.x, y |-> world.y,
              endX |-> world.x + Cos(world.rotation) * bs[i].length,
              endY |-> world.y + Sin(world.rotation) * bs[i].length,
              isActive |-> bs[i].id = activeId ] ]

\* there is no mesh, hence no filters; the overlay is left out
InitRender ==
    /\ meshFilters = << >>
    /\ overlay = None

\* generatedSpriteUrl: null, generationError: null, isGenerating: false,
\* generationRequestId: 0; the generation effect has not run
InitGeneration ==
    /\ generatedSpriteUrl = None
    /\ generationError = None
    /\ isGenerating = FALSE
    /\ generationRequestId = 0
    /\ effectRequestId = 0
    /\ exportRun = None

\* new PixelSnapFilter(virtualResolution): the filter with its uniform
PixelSnapFilter(resolution) == [ uResolution |-> resolution ]

\* no fragment is being shaded
InitShader ==
    /\ vTextureCoord = [ u |-> 0, v |-> 0 ]
    /\ uResolution = virtualResolution
    /\ snappedCell = None

(***************************************************************************)
(* Initial state: the store as created, the scene constructed and          *)
(* initialised, no sprite loaded.                                          *)
(***************************************************************************)
Init ==
    /\ bones = << >>
    /\ activeBoneId = Null
    /\ activeTool = "select"
    /\ isBound = FALSE
    /\ spriteDataUrl = NullUrl
    /\ bindPose = None
    /\ nextId = 1
    /\ currentMesh = None
    /\ spriteContainer = {}
    /\ vertices = << >>
    /\ bindData = None
    /\ originalVertices = None
    /\ isDragging = FALSE
    /\ dragMode = "rotate"
    /\ dragStartAngle = 0
    /\ dragStartPos = None
    /\ dragBoneStartPos = None
    /\ dragBoneId = Null
    /\ pendingJoint = None
    /\ pendingLoads = {}
    /\ loadsStarted = 0
    /\ editsLeft = MaxEdits
    /\ lastOp = NoOp
    /\ dragStart = None
    /\ bindTimeBones = None
    /\ preBindVertices = None
    /\ InitRender
    /\ InitGeneration
    /\ InitShader

(***************************************************************************)
(* stage.on('pointerdown')                                                 *)
(***************************************************************************)
\* tool === 'addJoint'
AddJointDown(pos) ==
    /\ nextId <= MaxBones
    /\ bones' = addBone(bones, nextId,
                    [ parentId |-> Null, position |-> [ x |-> pos.x, y |-> pos.y ],
                      rotation |-> 0, length |-> 0, radius |-> defaultRadius ])
    /\ nextId' = nextId + 1
    /\ UNCHANGED << activeBoneId, pendingJoint, dragVars, dragStart >>

\* tool === 'addBone'
AddBoneDown(pos) ==
    IF ~IsSome(pendingJoint)
    THEN LET closest == findClosestBone(bones, pos.x, pos.y)
         IN  /\ pendingJoint' = IF IsSome(closest) THEN closest ELSE pendingJoint
             /\ UNCHANGED << bones, nextId, activeBoneId, dragVars, dragStart >>
    ELSE LET parentBone == find(bones, Get(pendingJoint).id)
         IN  /\ pendingJoint' = None
             /\ UNCHANGED << activeBoneId, dragVars, dragStart >>
             /\ IF IsSome(parentBone)
                THEN LET parent == Get(parentBone)
                         parentWorld == getWorldTransform(bones, parent.id)
                         attachAtEnd == Get(pendingJoint).attach = "end"
                         anchorX == IF attachAtEnd
                                    THEN parentWorld.x + Cos(parentWorld.rotation) * parent.length
                                    ELSE parentWorld.x
                         anchorY == IF attachAtEnd
                                    THEN parentWorld.y + Sin(parentWorld.rotation) * parent.length
                                    ELSE parentWorld.y
                         angle == angleBetween(anchorX, anchorY, pos.x, pos.y)
                         len == distance(anchorX, anchorY, pos.x, pos.y)
                     IN  /\ OnAxis(anchorX, anchorY, pos.x, pos.y)
                         /\ nextId <= MaxBones
                         /\ bones' = addBone(bones, nextId,
                                [ parentId |-> parent.id,
                                  position |-> IF attachAtEnd THEN [ x |-> parent.length, y |-> 0 ]
                                                              ELSE [ x |-> 0, y |-> 0 ],
                                  rotation |-> angle - parentWorld.rotation,
                                  length |-> len, radius |-> defaultRadius ])
                         /\ nextId' = nextId + 1
                ELSE UNCHANGED << bones, nextId >>

\* tool === 'select'
SelectDown(pos) ==
    LET closest == findClosestBone(bones, pos.x, pos.y)
    IN  /\ UNCHANGED << bones, nextId, pendingJoint >>
        /\ IF IsSome(closest)
           THEN LET id == Get(closest).id
                    parentWorld == getWorldTransform(bones, id)
                    bone == Get(find(bones, id))
                IN  /\ activeBoneId' = id
                    /\ isDragging' = TRUE
                    /\ dragStart' = Some([ id |-> id, position |-> bone.position,
                                           rotation |-> bone.rotation,
                                           downPos |-> [ x |-> pos.x, y |-> pos.y ],
                                           moves |-> 0 ])
                    /\ dragBoneId' = id
                    /\ dragStartPos' = Some([ x |-> pos.x, y |-> pos.y ])
                    /\ IF bone.parentId = Null
                       THEN /\ dragMode' = "move"
                            /\ dragBoneStartPos' = Some(bone.position)
                            /\ UNCHANGED dragStartAngle
                       ELSE /\ OnAxis(parentWorld.x, parentWorld.y, pos.x, pos.y)
                            /\ dragMode' = "rotate"
                            /\ dragStartAngle' =
                                   angleBetween(parentWorld.x, parentWorld.y, pos.x, pos.y)
                            /\ UNCHANGED dragBoneStartPos
           ELSE /\ activeBoneId' = Null
                /\ UNCHANGED << dragVars, dragStart >>

\* pointerdown taking the stored tool, bound or not
PointerDown_storedTool(pos) ==
    LET tool == activeTool
    IN  /\ IF tool = "addJoint" THEN AddJointDown(pos)
           ELSE IF tool = "addBone" THEN AddBoneDown(pos)
           ELSE SelectDown(pos)
        /\ UNCHANGED << renderVars, genVars, shaderVars >>
        /\ lastOp' = NoOp
        /\ UNCHANGED << activeTool, isBound, spriteDataUrl, bindPose, meshVars, loadVars,
                        editsLeft, histVars >>

PointerDown(pos) ==
    LET tool == IF isBound THEN "select" ELSE activeTool
    IN  /\ IF tool = "addJoint" THEN AddJointDown(pos)
           ELSE IF tool = "addBone" THEN AddBoneDown(pos)
           ELSE SelectDown(pos)
        /\ UNCHANGED << renderVars, genVars, shaderVars >>
        /\ lastOp' = NoOp
        /\ UNCHANGED << activeTool, isBound, spriteDataUrl, bindPose, meshVars, loadVars,
                        editsLeft, histVars >>

(***************************************************************************)
(* stage.on('pointermove')                                                 *)
(***************************************************************************)
\* a move that adds the pointer's offset to the bone's present position
MoveDrag_fromPresent(bone, pos) ==
    /\ UNCHANGED dragStartAngle
    /\ IF IsSome(dragBoneStartPos)
       THEN LET dx == pos.x - Get(dragStartPos).x
                dy == pos.y - Get(dragStartPos).y
            IN  /\ editsLeft > 0
                /\ editsLeft' = editsLeft - 1
                /\ bones' = updateBone(bones, bone.id,
                       [ position |-> [ x |-> bone.position.x + dx,
                                        y |-> bone.position.y + dy ] ])
       ELSE UNCHANGED << bones, editsLeft >>

\* dragMode === 'move': the bone keeps its offset from the pointer
\* a move that also puts the bone's rotation back to 0
MoveDrag_resetsRotation(bone, pos) ==
    /\ UNCHANGED dragStartAngle
    /\ IF IsSome(dragBoneStartPos)
       THEN LET dx == pos.x - Get(dragStartPos).x
                dy == pos.y - Get(dragStartPos).y
            IN  /\ editsLeft > 0
                /\ editsLeft' = editsLeft - 1
                /\ bones' = updateBone(bones, bone.id,
                       [ rotation |-> 0, position |-> [ x |-> Get(dragBoneStartPos).x + dx,
                                        y |-> Get(dragBoneStartPos).y + dy ] ])
       ELSE UNCHANGED << bones, editsLeft >>

MoveDrag(bone, pos) ==
    /\ UNCHANGED dragStartAngle
    /\ IF IsSome(dragBoneStartPos)
       THEN LET dx == pos.x - Get(dragStartPos).x
                dy == pos.y - Get(dragStartPos).y
            IN  /\ editsLeft > 0
                /\ editsLeft' = editsLeft - 1
                /\ bones' = updateBone(bones, bone.id,
                       [ position |-> [ x |-> Get(dragBoneStartPos).x + dx,
                                        y |-> Get(dragBoneStartPos).y + dy ] ])
       ELSE UNCHANGED << bones, editsLeft >>

\* a rotation that never stores the new angle: every delta is taken from the
\* pointer-down angle
RotateDrag_keepsAngle(bone, pos) ==
    LET world == getWorldTransform(bones, bone.id)
        currentAngle == angleBetween(world.x, world.y, pos.x, pos.y)
        delta == currentAngle - dragStartAngle
    IN  /\ OnAxis(world.x, world.y, pos.x, pos.y)
        /\ editsLeft > 0
        /\ editsLeft' = editsLeft - 1
        /\ UNCHANGED dragStartAngle
        /\ bones' = updateBone(bones, bone.id, [ rotation |-> bone.rotation + delta ])

\* dragMode === 'rotate': the bone turns by the change of the pointer's angle
RotateDrag(bone, pos) ==
    LET world == getWorldTransform(bones, bone.id)
        currentAngle == angleBetween(world.x, world.y, pos.x, pos.y)
        delta == currentAngle - dragStartAngle
    IN  /\ OnAxis(world.x, world.y, pos.x, pos.y)
        /\ editsLeft > 0
        /\ editsLeft' = editsLeft - 1
        /\ dragStartAngle' = currentAngle
        /\ bones' = updateBone(bones, bone.id, [ rotation |-> bone.rotation + delta ])

PointerMove(pos) ==
    LET bone == find(bones, dragBoneId)
    IN  /\ lastOp' = NoOp
        /\ UNCHANGED << renderVars, genVars, shaderVars >>
        /\ UNCHANGED << activeBoneId, activeTool, isBound, spriteDataUrl, bindPose, nextId,
                        meshVars, loadVars, histVars, pendingJoint,
                        isDragging, dragMode, dragStartPos, dragBoneStartPos, dragBoneId >>
        /\ IF ~isDragging \/ dragBoneId = Null \/ ~IsSome(dragStartPos) \/ ~IsSome(bone)
           THEN UNCHANGED << bones, dragStartAngle, editsLeft, dragStart >>
           ELSE /\ IF dragMode = "move" THEN MoveDrag(Get(bone), pos)
                                        ELSE RotateDrag(Get(bone), pos)
                /\ dragStart' = IF IsSome(dragStart)
                                THEN Some([ Get(dragStart) EXCEPT !.moves = @ + 1 ])
                                ELSE dragStart

(***************************************************************************)
(* stage.on('pointerup'), stage.on('pointerupoutside')                     *)
(***************************************************************************)
PointerUp ==
    /\ isDragging' = FALSE
    /\ dragBoneId' = Null
    /\ dragStartPos' = None
    /\ dragBoneStartPos' = None
    /\ dragStart' = None
    /\ UNCHANGED << renderVars, genVars, shaderVars >>
    /\ lastOp' = NoOp
    /\ UNCHANGED << storeVars, meshVars, loadVars, editsLeft, histVars, pendingJoint,
                    dragMode, dragStartAngle >>

\* a pointerupoutside that clears the dragged bone and the anchors and leaves
\* isDragging set
PointerUpOutside_stillDragging ==
    /\ dragBoneId' = Null
    /\ dragStartPos' = None
    /\ dragBoneStartPos' = None
    /\ dragStart' = None
    /\ UNCHANGED << renderVars, genVars, shaderVars >>
    /\ lastOp' = NoOp
    /\ UNCHANGED << storeVars, meshVars, loadVars, editsLeft, histVars, pendingJoint,
                    isDragging, dragMode, dragStartAngle >>

PointerUpOutside ==
    /\ isDragging' = FALSE
    /\ dragBoneId' = Null
    /\ dragStartPos' = None
    /\ dragBoneStartPos' = None
    /\ dragStart' = None
    /\ UNCHANGED << renderVars, genVars, shaderVars >>
    /\ lastOp' = NoOp
    /\ UNCHANGED << storeVars, meshVars, loadVars, editsLeft, histVars, pendingJoint,
                    dragMode, dragStartAngle >>

(***************************************************************************)
(* Toolbar and Sidebar handlers on the store                               *)
(***************************************************************************)
\* Toolbar tool button: !isBound && setActiveTool(tool.id)
SetActiveTool(tool) ==
    /\ ~isBound
    /\ activeTool' = tool
    /\ UNCHANGED << renderVars, genVars, shaderVars >>
    /\ lastOp' = NoOp
    /\ UNCHANGED << bones, activeBoneId, isBound, spriteDataUrl, bindPose, nextId,
                    meshVars, dragVars, dragStart, pendingJoint, loadVars, editsLeft, histVars >>

\* the store's removeBone(id); the Toolbar's delete button calls it with activeBoneId
RemoveBone(id) ==
    /\ id \in BoneIds(bones)
    /\ bones' = removeBone(bones, activeBoneId, id).bones
    /\ activeBoneId' = removeBone(bones, activeBoneId, id).activeBoneId
    /\ UNCHANGED << renderVars, genVars, shaderVars >>
    /\ lastOp' = Op("removeBone", id, activeBoneId, Len(bones) - Len(bones'))
    /\ UNCHANGED << activeTool, isBound, spriteDataUrl, bindPose, nextId,
                    meshVars, dragVars, dragStart, pendingJoint, loadVars, editsLeft, histVars >>

\* Sidebar bone-tree item: setActiveBone(bone.id) for a listed bone
SetActiveBone(id) ==
    /\ id \in BoneIds(bones)
    /\ activeBoneId' = id
    /\ UNCHANGED << renderVars, genVars, shaderVars >>
    /\ lastOp' = NoOp
    /\ UNCHANGED << bones, activeTool, isBound, spriteDataUrl, bindPose, nextId,
                    meshVars, dragVars, dragStart, pendingJoint, loadVars, editsLeft, histVars >>

\* the updates the Sidebar's property inputs make of the active bone
PanelUpdates(activeBone) ==
    { [ name |-> Renamed ] }
    \cup { [ position |-> [ activeBone.position EXCEPT !.x = v ] ] : v \in Coords }
    \cup { [ position |-> [ activeBone.position EXCEPT !.y = v ] ] : v \in Coords }
    \cup { [ rotation |-> r ] : r \in PanelRotations }
    \cup { [ length |-> l ] : l \in PanelLengths }

\* Sidebar property input: updateBone(activeBone.id, {...})
UpdateBone ==
    /\ IsSome(find(bones, activeBoneId))
    /\ editsLeft > 0
    /\ editsLeft' = editsLeft - 1
    /\ \E updates \in PanelUpdates(Get(find(bones, activeBoneId))) :
          bones' = updateBone(bones, activeBoneId, updates)
    /\ UNCHANGED << renderVars, genVars, shaderVars >>
    /\ lastOp' = NoOp
    /\ UNCHANGED << activeBoneId, activeTool, isBound, spriteDataUrl, bindPose, nextId,
                    meshVars, dragVars, dragStart, pendingJoint, loadVars, histVars >>

\* Toolbar reset button / the store's resetPose
ResetPose ==
    /\ bones' = resetPose(bones, bindPose)
    /\ UNCHANGED << renderVars, genVars, shaderVars >>
    /\ lastOp' = IF IsSome(bindPose)
                 THEN Op("resetPose", Null, activeBoneId,
                         Cardinality({ i \in 1..Len(bones) : bones'[i] # bones[i] }))
                 ELSE NoOp
    /\ UNCHANGED << activeBoneId, activeTool, isBound, spriteDataUrl, bindPose, nextId,
                    meshVars, dragVars, dragStart, pendingJoint, loadVars, editsLeft, histVars >>

(***************************************************************************)
(* Binding: setBound and the scene's store subscription                    *)
(***************************************************************************)
\* bindSkeleton: whether it gets past its two early returns
bindProceeds == IsSome(currentMesh) /\ Len(bones) # 0

\* bindSkeleton's this.originalVertices = new Float32Array(vertices)
copyOfVertices(verts) == verts

\* bindSkeleton, run by the subscription on unbound -> bound
bindSkeleton ==
    IF bindProceeds
    THEN /\ pendingJoint' = None
         /\ originalVertices' = Some(copyOfVertices(vertices))
         /\ bindData' = Some(bindFrom(bones, vertices, offset))
         /\ preBindVertices' = Some(vertices)
         /\ UNCHANGED << currentMesh, spriteContainer, vertices >>
    ELSE /\ preBindVertices' = None
         /\ UNCHANGED << pendingJoint, meshVars >>

\* unbindSkeleton leaving the buffer as the frames left it
restoredVertices_live == vertices

\* unbindSkeleton's vertices.set(this.originalVertices)
restoredVertices == Get(originalVertices)

\* unbindSkeleton restoring the buffer and keeping the bind entries
unbindSkeleton_keepsEntries ==
    IF ~IsSome(currentMesh) \/ ~IsSome(originalVertices)
    THEN UNCHANGED << currentMesh, spriteContainer, vertices, bindData, originalVertices >>
    ELSE /\ vertices' = restoredVertices
         /\ UNCHANGED << currentMesh, spriteContainer, bindData, originalVertices >>

\* unbindSkeleton, run by the subscription on bound -> unbound
unbindSkeleton ==
    IF ~IsSome(currentMesh) \/ ~IsSome(originalVertices)
    THEN UNCHANGED << currentMesh, spriteContainer, vertices, bindData, originalVertices >>
    ELSE /\ vertices' = restoredVertices
         /\ bindData' = None
         /\ UNCHANGED << currentMesh, spriteContainer, originalVertices >>

\* Toolbar bind button: setBound(!isBound), disabled while unbound with no
\* sprite or no bone
ToggleBound ==
    /\ isBound \/ (spriteDataUrl # NullUrl /\ Len(bones) # 0)
    /\ UNCHANGED << bones, activeBoneId, spriteDataUrl, nextId, dragVars, dragStart, loadVars, editsLeft >>
    /\ IF ~isBound
       THEN /\ isBound' = TRUE
            /\ activeTool' = "select"
            /\ bindPose' = Some(snapshotPose(bones))
            /\ bindTimeBones' = Some(bones)
            /\ bindSkeleton
            /\ UNCHANGED << renderVars, genVars, shaderVars >>
            /\ lastOp' = Op("bind", Null, activeBoneId, 0)
       ELSE /\ isBound' = FALSE
            /\ bindPose' = None
            /\ bindTimeBones' = None
            /\ preBindVertices' = None
            /\ unbindSkeleton
            /\ UNCHANGED << renderVars, genVars, shaderVars >>
            /\ lastOp' = Op("unbind", Null, activeBoneId,
                            Cardinality({ i \in 1..Len(vertices) : vertices'[i] # vertices[i] }))
            /\ UNCHANGED << activeTool, pendingJoint >>

(***************************************************************************)
(* Sprites: setSpriteDataUrl, Canvas's load effect, loadSprite             *)
(***************************************************************************)
\* a file is read: setSpriteDataUrl(url); the subscription unbinds; when the
\* url changed, Canvas's effect calls loadSprite(url), which runs up to its
\* await
setSpriteDataUrl(url, maxLoads) ==
    /\ spriteDataUrl' = url
    /\ isBound' = FALSE
    /\ bindPose' = None
    /\ bindTimeBones' = None
    /\ preBindVertices' = None
    /\ generatedSpriteUrl' = None
    /\ generationError' = None
    /\ isGenerating' = FALSE
    /\ meshFilters' = IF url # spriteDataUrl THEN << >> ELSE meshFilters
    /\ UNCHANGED << overlay, generationRequestId, effectRequestId, exportRun, shaderVars >>
    /\ lastOp' = NoOp
    /\ UNCHANGED << bones, activeBoneId, activeTool, nextId, dragVars, dragStart, pendingJoint,
                    originalVertices, editsLeft >>
    /\ LET unbinds == isBound /\ IsSome(currentMesh) /\ IsSome(originalVertices)
           restored == IF unbinds THEN restoredVertices ELSE vertices
       IN  /\ bindData' = IF unbinds THEN None ELSE bindData
           /\ IF url # spriteDataUrl
              THEN /\ loadsStarted < maxLoads
                   /\ loadsStarted' = loadsStarted + 1
                   /\ pendingLoads' = pendingLoads \cup { loadsStarted + 1 }
                   /\ currentMesh' = None
                   /\ spriteContainer' = IF IsSome(currentMesh)
                                         THEN spriteContainer \ { Get(currentMesh) }
                                         ELSE spriteContainer
                   /\ vertices' = IF IsSome(currentMesh) THEN << >> ELSE restored
              ELSE /\ vertices' = restored
                   /\ UNCHANGED << loadVars, currentMesh, spriteContainer >>

SetSpriteDataUrl(url) == setSpriteDataUrl(url, MaxLoads)

\* loadSprite after its await: the texture loaded
LoadComplete(load) ==
    /\ load \in pendingLoads
    /\ pendingLoads' = pendingLoads \ { load }
    /\ spriteContainer' = spriteContainer \cup { load }
    /\ currentMesh' = Some(load)
    /\ vertices' = createPlaneGeometry(canvasSize, canvasSize, MeshSegments, MeshSegments)
    /\ bindData' = None
    /\ meshFilters' = << >>
    /\ UNCHANGED << overlay, genVars, shaderVars >>
    /\ lastOp' = NoOp
    /\ UNCHANGED << storeVars, originalVertices, dragVars, dragStart, pendingJoint, loadsStarted, editsLeft,
                    histVars >>

\* loadSprite after its await: Assets.load failed, the catch logs it
LoadFail(load) ==
    /\ load \in pendingLoads
    /\ pendingLoads' = pendingLoads \ { load }
    /\ UNCHANGED << renderVars, genVars, shaderVars >>
    /\ lastOp' = NoOp
    /\ UNCHANGED << storeVars, meshVars, dragVars, dragStart, pendingJoint, loadsStarted, editsLeft, histVars >>

(***************************************************************************)
(* The ticker callback of startRenderLoop                                  *)
(***************************************************************************)
Frame ==
    /\ vertices' = IF isBound THEN updateDeformation(bones, currentMesh, bindData, vertices)
                              ELSE vertices
    /\ overlay' = IF IsSome(overlay) THEN Some(draw(bones, activeBoneId)) ELSE overlay
    /\ UNCHANGED << meshFilters, genVars, shaderVars >>
    /\ lastOp' = IF isBound
                 THEN Op("frame", Null, activeBoneId,
                         Cardinality({ i \in 1..Len(vertices) : vertices'[i] # vertices[i] }))
                 ELSE NoOp
    /\ UNCHANGED << storeVars, currentMesh, spriteContainer, bindData, originalVertices,
                    dragVars, dragStart, pendingJoint, loadVars, editsLeft, histVars >>

Next ==
    \/ \E pos \in Points : PointerDown(pos)
    \/ \E pos \in Points : PointerMove(pos)
    \/ PointerUp
    \/ PointerUpOutside
    \/ \E tool \in Tools : SetActiveTool(tool)
    \/ \E id \in 1..MaxBones : RemoveBone(id)
    \/ \E id \in 1..MaxBones : SetActiveBone(id)
    \/ UpdateBone
    \/ ResetPose
    \/ ToggleBound
    \/ \E url \in Urls : SetSpriteDataUrl(url)
    \/ \E load \in 1..MaxLoads : LoadComplete(load)
    \/ \E load \in 1..MaxLoads : LoadFail(load)
    \/ Frame

Spec == Init /\ [][Next]_vars

(***************************************************************************)
(* Posing a rig: the store and scene operations on a skeleton that has     *)
(* been built and a sprite that has been loaded.                           *)
(***************************************************************************)
\* a bone as the pointer and the property panel leave it
InitBone(id, parentId) ==
    [ id |-> id, name |-> BoneName(id), parentId |-> parentId,
      position |-> [ x |-> 10, y |-> 0 ], rotation |-> 1, length |-> 10,
      radius |-> defaultRadius ]

\* the skeletons of n bones: every bone a root or the child of an earlier bone
RECURSIVE InitForests(_)
InitForests(n) ==
    IF n = 0 THEN { << >> }
    ELSE { Append(bs, InitBone(n, parentId)) :
             bs \in InitForests(n - 1), parentId \in {Null} \cup 1..(n - 1) }

InitPose ==
    /\ bones \in UNION { InitForests(n) : n \in 1..ForestBones }
    /\ activeBoneId = Null
    /\ activeTool = "select"
    /\ isBound = FALSE
    /\ spriteDataUrl = 1
    /\ bindPose = None
    /\ nextId = Len(bones) + 1
    /\ currentMesh = Some(1)
    /\ spriteContainer = {1}
    /\ vertices = createPlaneGeometry(canvasSize, canvasSize, MeshSegments, MeshSegments)
    /\ bindData = None
    /\ originalVertices = None
    /\ isDragging = FALSE
    /\ dragMode = "rotate"
    /\ dragStartAngle = 0
    /\ dragStartPos = None
    /\ dragBoneStartPos = None
    /\ dragBoneId = Null
    /\ pendingJoint = None
    /\ pendingLoads = {}
    /\ loadsStarted = 1
    /\ editsLeft = MaxPoseEdits
    /\ lastOp = NoOp
    /\ dragStart = None
    /\ bindTimeBones = None
    /\ preBindVertices = None
    /\ InitRender
    /\ InitGeneration
    /\ InitShader

NextPose ==
    \/ \E id \in 1..ForestBones : RemoveBone(id)
    \/ \E id \in 1..ForestBones : SetActiveBone(id)
    \/ UpdateBone
    \/ ResetPose
    \/ ToggleBound
    \/ Frame

SpecPose == InitPose /\ [][NextPose]_vars

(***************************************************************************)
(* Posing from the sidebar alone: selection, the property panel and        *)
(* deletion on any skeleton of up to ForestBones bones, never bound.       *)
(***************************************************************************)
InitPanel == InitPose

NextPanel ==
    \/ \E id \in 1..ForestBones : SetActiveBone(id)
    \/ \E id \in 1..ForestBones : RemoveBone(id)
    \/ UpdateBone

SpecPanel == InitPanel /\ [][NextPanel]_vars

(***************************************************************************)
(* The pointer tools on a skeleton that has a root: the pointer handlers   *)
(* and the tool buttons, no sprite.                                        *)
(***************************************************************************)
MaxPointerMoves == 2 \* pointermove events that drag a bone

\* pointer positions: on the root's origin, on its end point, and out of pick radius
PointerPoints == { [x |-> 10, y |-> 0], [x |-> 10, y |-> 10], [x |-> 10, y |-> 40] }

InitOneRoot ==
    /\ bones = << InitBone(1, Null) >>
    /\ activeBoneId = Null
    /\ activeTool = "select"
    /\ isBound = FALSE
    /\ spriteDataUrl = NullUrl
    /\ bindPose = None
    /\ nextId = 2
    /\ currentMesh = None
    /\ spriteContainer = {}
    /\ vertices = << >>
    /\ bindData = None
    /\ originalVertices = None
    /\ isDragging = FALSE
    /\ dragMode = "rotate"
    /\ dragStartAngle = 0
    /\ dragStartPos = None
    /\ dragBoneStartPos = None
    /\ dragBoneId = Null
    /\ pendingJoint = None
    /\ pendingLoads = {}
    /\ loadsStarted = 0
    /\ editsLeft = MaxPointerMoves
    /\ lastOp = NoOp
    /\ dragStart = None
    /\ bindTimeBones = None
    /\ preBindVertices = None

InitPointer ==
    /\ InitOneRoot
    /\ InitRender
    /\ InitGeneration
    /\ InitShader

NextPointer ==
    \/ \E pos \in PointerPoints : PointerDown(pos)
    \/ \E pos \in PointerPoints : PointerMove(pos)
    \/ PointerUp
    \/ PointerUpOutside
    \/ \E tool \in Tools : SetActiveTool(tool)

SpecPointer == InitPointer /\ [][NextPointer]_vars

(***************************************************************************)
(* Generation: the store's requestGenerate, Canvas's generation effect and *)
(* the scene's exportSprite, with the bind button and sprite loads.        *)
(***************************************************************************)
MaxRequests == 2     \* requestGenerate calls made

\* the messages of setGenerationError
UploadFirst == "Upload a sprite before generating."
BindFirst == "Bind the skeleton before generating."
ExportFailed == "Failed to export sprite."
ExportThrew == "Error"

\* the data URL of the image extracted from a mesh with the given vertices
toDataURL(verts) == << "image/png", verts >>

\* exportSprite: null without a mesh; with one, the image, or null when the
\* renderer or the 2d context yields no canvas, or an exception
exportSprite ==
    IF ~IsSome(currentMesh) THEN { [ dataUrl |-> None, threw |-> FALSE ] }
    ELSE { [ dataUrl |-> Some(toDataURL(vertices)), threw |-> FALSE ],
           [ dataUrl |-> None, threw |-> FALSE ],
           [ dataUrl |-> None, threw |-> TRUE ] }

\* the store's requestGenerate
RequestGenerate ==
    /\ generationRequestId < MaxRequests
    /\ generationRequestId' = generationRequestId + 1
    /\ isGenerating' = TRUE
    /\ generationError' = None
    /\ lastOp' = NoOp
    /\ UNCHANGED << storeVars, meshVars, dragVars, dragStart, pendingJoint, loadVars, editsLeft,
                    histVars, renderVars, shaderVars,
                    generatedSpriteUrl, effectRequestId, exportRun >>

\* the effect without its check of isBound: an unbound skeleton is exported
GenerationEffect_exportsUnbound ==
    /\ effectRequestId # generationRequestId
    /\ effectRequestId' = generationRequestId
    /\ lastOp' = NoOp
    /\ UNCHANGED << storeVars, meshVars, dragVars, dragStart, pendingJoint, loadVars, editsLeft,
                    histVars, renderVars, shaderVars, generatedSpriteUrl, generationRequestId >>
    /\ IF spriteDataUrl = NullUrl
       THEN /\ generationError' = Some(UploadFirst)
            /\ isGenerating' = FALSE
            /\ exportRun' = None
       ELSE /\ \E result \in exportSprite : exportRun' = Some(result)
            /\ UNCHANGED << generationError, isGenerating >>

\* Canvas's effect on a new generationRequestId, the scene being ready: the
\* cleanup of the earlier effect cancels its run, then run() goes as far as
\* its await
GenerationEffect ==
    /\ effectRequestId # generationRequestId
    /\ effectRequestId' = generationRequestId
    /\ lastOp' = NoOp
    /\ UNCHANGED << storeVars, meshVars, dragVars, dragStart, pendingJoint, loadVars, editsLeft,
                    histVars, renderVars, shaderVars, generatedSpriteUrl, generationRequestId >>
    /\ IF spriteDataUrl = NullUrl
       THEN /\ generationError' = Some(UploadFirst)
            /\ isGenerating' = FALSE
            /\ exportRun' = None
       ELSE IF ~isBound
       THEN /\ generationError' = Some(BindFirst)
            /\ isGenerating' = FALSE
            /\ exportRun' = None
       ELSE /\ \E result \in exportSprite : exportRun' = Some(result)
            /\ UNCHANGED << generationError, isGenerating >>

\* run() without its finally block: isGenerating is left as it was
ExportSettles_keepsGenerating ==
    /\ IsSome(exportRun)
    /\ exportRun' = None
    /\ isGenerating' = isGenerating
    /\ generatedSpriteUrl' = IF IsSome(Get(exportRun).dataUrl)
                             THEN Get(exportRun).dataUrl ELSE generatedSpriteUrl
    /\ generationError' = IF Get(exportRun).threw THEN Some(ExportThrew)
                          ELSE IF IsSome(Get(exportRun).dataUrl) THEN None
                          ELSE Some(ExportFailed)
    /\ lastOp' = NoOp
    /\ UNCHANGED << storeVars, meshVars, dragVars, dragStart, pendingJoint, loadVars, editsLeft,
                    histVars, renderVars, shaderVars, generationRequestId, effectRequestId >>

\* run() after its await, not cancelled: the result is stored or the
\* failure reported, and isGenerating is reset
ExportSettles ==
    /\ IsSome(exportRun)
    /\ exportRun' = None
    /\ isGenerating' = FALSE
    /\ generatedSpriteUrl' = IF IsSome(Get(exportRun).dataUrl)
                             THEN Get(exportRun).dataUrl ELSE generatedSpriteUrl
    /\ generationError' = IF Get(exportRun).threw THEN Some(ExportThrew)
                          ELSE IF IsSome(Get(exportRun).dataUrl) THEN None
                          ELSE Some(ExportFailed)
    /\ lastOp' = NoOp
    /\ UNCHANGED << storeVars, meshVars, dragVars, dragStart, pendingJoint, loadVars, editsLeft,
                    histVars, renderVars, shaderVars, generationRequestId, effectRequestId >>

\* a skeleton of one root, no sprite chosen, nothing requested
InitGenerate == InitPointer

NextGenerate ==
    \/ RequestGenerate
    \/ GenerationEffect
    \/ ExportSettles
    \/ ToggleBound
    \/ \E url \in Urls : SetSpriteDataUrl(url)
    \/ \E load \in 1..MaxLoads : LoadComplete(load)
    \/ \E load \in 1..MaxLoads : LoadFail(load)
    \/ Frame

SpecGenerate == InitGenerate /\ [][NextGenerate]_vars

\* React runs the effect after the commit that changed generationRequestId,
\* and the promise of exportSprite (which awaits nothing) settles
SpecGenerateFair ==
    /\ InitGenerate
    /\ [][NextGenerate]_vars
    /\ WF_vars(GenerationEffect)
    /\ WF_vars(ExportSettles)

(***************************************************************************)
(* The pointer tools around a bind: pointer-down and pointer-up, the       *)
(* store's setActiveTool called directly (the tool buttons are disabled    *)
(* while bound), the bind button, deletion and a sprite.                   *)
(***************************************************************************)
\* the store's setActiveTool(tool), not through the toolbar
StoreSetActiveTool(tool) ==
    /\ activeTool' = tool
    /\ UNCHANGED << renderVars, genVars, shaderVars >>
    /\ lastOp' = NoOp
    /\ UNCHANGED << bones, activeBoneId, isBound, spriteDataUrl, bindPose, nextId,
                    meshVars, dragVars, dragStart, pendingJoint, loadVars, editsLeft, histVars >>

InitTools == InitPointer

NextTools ==
    \/ \E pos \in PointerPoints : PointerDown(pos)
    \/ PointerUp
    \/ \E tool \in Tools : StoreSetActiveTool(tool)
    \/ \E id \in 1..MaxBones : RemoveBone(id)
    \/ \E url \in Urls : SetSpriteDataUrl(url)
    \/ ToggleBound

SpecTools == InitTools /\ [][NextTools]_vars

(***************************************************************************)
(* Drags around a bind: the pointer tools on a skeleton that has a root,   *)
(* with a sprite chosen and the bind button.                               *)
(***************************************************************************)
InitDrag == InitPointer

NextDrag ==
    \/ \E pos \in PointerPoints : PointerDown(pos)
    \/ \E pos \in PointerPoints : PointerMove(pos)
    \/ PointerUp
    \/ \E tool \in Tools : SetActiveTool(tool)
    \/ \E url \in Urls : SetSpriteDataUrl(url)
    \/ ToggleBound

SpecDrag == InitDrag /\ [][NextDrag]_vars

(***************************************************************************)
(* Sprite loads that overlap: a second file is chosen while the first is   *)
(* still in `await Assets.load`, and the loads complete in any order.      *)
(***************************************************************************)
MaxRacingLoads == 3  \* loadSprite calls made

RacingUrls == 1..2

InitLoads == InitPointer

NextLoads ==
    \/ \E url \in RacingUrls : setSpriteDataUrl(url, MaxRacingLoads)
    \/ \E load \in 1..MaxRacingLoads : LoadComplete(load)
    \/ ToggleBound
    \/ Frame

SpecLoads == InitLoads /\ [][NextLoads]_vars

(***************************************************************************)
(* The render loop with the bone overlay: frames of a skeleton that is     *)
(* selected, posed, bound and unbound, the overlay's graphics being part   *)
(* of the state.                                                           *)
(***************************************************************************)
FrameBones == 2      \* bones of the skeleton
MaxFrameEdits == 1   \* updateBone calls made

\* any skeleton of FrameBones bones, its sprite loaded, nothing drawn yet
InitFrame ==
    /\ bones \in InitForests(FrameBones)
    /\ activeBoneId = Null
    /\ activeTool = "select"
    /\ isBound = FALSE
    /\ spriteDataUrl = 1
    /\ bindPose = None
    /\ nextId = Len(bones) + 1
    /\ currentMesh = Some(1)
    /\ spriteContainer = {1}
    /\ vertices = createPlaneGeometry(canvasSize, canvasSize, MeshSegments, MeshSegments)
    /\ bindData = None
    /\ originalVertices = None
    /\ isDragging = FALSE
    /\ dragMode = "rotate"
    /\ dragStartAngle = 0
    /\ dragStartPos = None
    /\ dragBoneStartPos = None
    /\ dragBoneId = Null
    /\ pendingJoint = None
    /\ pendingLoads = {}
    /\ loadsStarted = 1
    /\ editsLeft = MaxFrameEdits
    /\ lastOp = NoOp
    /\ dragStart = None
    /\ bindTimeBones = None
    /\ preBindVertices = None
    /\ meshFilters = << >>
    /\ overlay = Some(<< >>)
    /\ InitGeneration
    /\ InitShader

NextFrame ==
    \/ \E id \in 1..FrameBones : SetActiveBone(id)
    \/ \E id \in 1..FrameBones : RemoveBone(id)
    \/ UpdateBone
    \/ ToggleBound
    \/ Frame

SpecFrame == InitFrame /\ [][NextFrame]_vars

(***************************************************************************)
(* The pixel-snap fragment shader run for one fragment, and the filter's   *)
(* uniform.  A texture coordinate n stands for n / UvSteps, so the closed  *)
(* interval [0, 1] is 0..UvSteps.                                          *)
(***************************************************************************)
UvSteps == 4         \* texture coordinates are multiples of 1 / UvSteps
MaxResolution == 3   \* resolutions the uniform is set to, besides the store's

Resolutions == (1..MaxResolution) \cup { virtualResolution }

\* floor(coord * resolution), coord being n / UvSteps
floorScaled(n, resolution) == (n * resolution) \div UvSteps

\* main(): snappedUV = floor(vTextureCoord * uResolution) / uResolution,
\* held as its numerators over uResolution
main ==
    /\ snappedCell' = Some([ x |-> floorScaled(vTextureCoord.u, uResolution),
                             y |-> floorScaled(vTextureCoord.v, uResolution),
                             resolution |-> uResolution ])
    /\ lastOp' = NoOp
    /\ UNCHANGED << storeVars, meshVars, dragVars, dragStart, pendingJoint, loadVars, editsLeft,
                    histVars, renderVars, genVars, vTextureCoord, uResolution >>

\* PixelSnapFilter's setter of virtualResolution
SetVirtualResolution(value) ==
    /\ uResolution' = value
    /\ lastOp' = NoOp
    /\ UNCHANGED << storeVars, meshVars, dragVars, dragStart, pendingJoint, loadVars, editsLeft,
                    histVars, renderVars, genVars, vTextureCoord, snappedCell >>

\* any fragment of the unit square, the filter as constructed
InitFragment ==
    /\ InitOneRoot
    /\ InitRender
    /\ InitGeneration
    /\ vTextureCoord \in [ u : 0..UvSteps, v : 0..UvSteps ]
    /\ uResolution = virtualResolution
    /\ snappedCell = None

NextFragment ==
    \/ main
    \/ \E value \in Resolutions : SetVirtualResolution(value)

SpecFragment == InitFragment /\ [][NextFragment]_vars

(***************************************************************************)
(* The store's actions called with any argument: addBone with any parent   *)
(* id, updateBone and removeBone with any id, present or not.              *)
(***************************************************************************)
StoreIds == 3        \* ids the calls name (ids 1..StoreIds), and bones ever added
MaxStoreEdits == 2   \* updateBone calls made

\* the parent ids, positions and partial updates the calls are made with
StoreParents == {Null} \cup 1..(StoreIds + 1)
StoreUpdates ==
    { [ rotation |-> 1 ],
      [ position |-> [ x |-> 10, y |-> 0 ] ],
      [ name |-> Renamed ],
      [ rotation |-> 2, length |-> 10 ] }

\* lastOp after updateBone(id, updates)
UpdateOp(id, updates) ==
    [ op |-> "updateBone", id |-> id, activeBoneId |-> activeBoneId, changed |-> 0,
      updates |-> updates ]

\* the store's addBone({parentId, position, rotation: 0, length: 0, radius})
\* (a caller cannot name a bone that is yet to be added: uuidv4 makes the id)
StoreAddBone(parentId, pos) ==
    /\ nextId <= StoreIds
    /\ parentId < nextId \/ parentId > StoreIds
    /\ bones' = addBone(bones, nextId,
                    [ parentId |-> parentId, position |-> [ x |-> pos.x, y |-> pos.y ],
                      rotation |-> 0, length |-> 0, radius |-> defaultRadius ])
    /\ nextId' = nextId + 1
    /\ UNCHANGED << renderVars, genVars, shaderVars >>
    /\ lastOp' = Op("addBone", parentId, activeBoneId, Len(bones') - Len(bones))
    /\ UNCHANGED << activeBoneId, activeTool, isBound, spriteDataUrl, bindPose,
                    meshVars, dragVars, dragStart, pendingJoint, loadVars, editsLeft, histVars >>

\* the store's updateBone(id, updates)
StoreUpdateBone(id, updates) ==
    /\ editsLeft > 0
    /\ editsLeft' = editsLeft - 1
    /\ bones' = updateBone(bones, id, updates)
    /\ UNCHANGED << renderVars, genVars, shaderVars >>
    /\ lastOp' = UpdateOp(id, updates)
    /\ UNCHANGED << activeBoneId, activeTool, isBound, spriteDataUrl, bindPose, nextId,
                    meshVars, dragVars, dragStart, pendingJoint, loadVars, histVars >>

\* the store as created, the scene constructed, no sprite loaded
InitStore ==
    /\ bones = << >>
    /\ activeBoneId = Null
    /\ activeTool = "select"
    /\ isBound = FALSE
    /\ spriteDataUrl = NullUrl
    /\ bindPose = None
    /\ nextId = 1
    /\ currentMesh = None
    /\ spriteContainer = {}
    /\ vertices = << >>
    /\ bindData = None
    /\ originalVertices = None
    /\ isDragging = FALSE
    /\ dragMode = "rotate"
    /\ dragStartAngle = 0
    /\ dragStartPos = None
    /\ dragBoneStartPos = None
    /\ dragBoneId = Null
    /\ pendingJoint = None
    /\ pendingLoads = {}
    /\ loadsStarted = 0
    /\ editsLeft = MaxStoreEdits
    /\ lastOp = NoOp
    /\ dragStart = None
    /\ bindTimeBones = None
    /\ preBindVertices = None
    /\ InitRender
    /\ InitGeneration
    /\ InitShader

NextStore ==
    \/ \E parentId \in StoreParents, pos \in Points : StoreAddBone(parentId, pos)
    \/ \E id \in 1..StoreIds, updates \in StoreUpdates : StoreUpdateBone(id, updates)
    \/ \E id \in 1..StoreIds : RemoveBone(id)
    \/ \E id \in 1..StoreIds : SetActiveBone(id)

SpecStore == InitStore /\ [][NextStore]_vars

(***************************************************************************)
(* Properties                                                              *)
(***************************************************************************)
\* the bone of bs with the given id (there is one)
BoneOf(bs, id) == bs[CHOOSE i \in 1..Len(bs) : bs[i].id = id]

\* the parent links from the bone named id lead to a root within n steps
RECURSIVE ReachesRoot(_, _, _)
ReachesRoot(bs, id, n) ==
    /\ n > 0
    /\ id \in BoneIds(bs)
    /\ \/ BoneOf(bs, id).parentId = Null
       \/ ReachesRoot(bs, BoneOf(bs, id).parentId, n - 1)

\* the bone named a is the bone named id or one of its descendants
RECURSIVE InSubtree(_, _, _, _)
InSubtree(bs, a, id, n) ==
    \/ a = id
    \/ /\ n > 0
       /\ a \in BoneIds(bs)
       /\ BoneOf(bs, a).parentId # Null
       /\ InSubtree(bs, BoneOf(bs, a).parentId, id, n - 1)

Subtree(bs, id) == { a \in BoneIds(bs) : InSubtree(bs, a, id, Len(bs)) }

\* C1: the bones always form a forest: every parentId is null or the id of
\* a bone that stands earlier in the collection, and every bone's parent
\* chain reaches a root (no bone is its own ancestor).
C1_Forest ==
    \A i \in 1..Len(bones) :
        /\ \/ bones[i].parentId = Null
           \/ \E j \in 1..(i - 1) : bones[j].id = bones[i].parentId
        /\ ReachesRoot(bones, bones[i].id, Len(bones))

\* a bound skeleton with a child bone, after a pose edit
C1_Witness ==
    /\ isBound
    /\ editsLeft < MaxEdits
    /\ \E i \in 1..Len(bones) : bones[i].parentId # Null

\* v rotated by k quarter turns
Rotated(v, k) == [ x |-> Cos(k) * v.x - Sin(k) * v.y, y |-> Sin(k) * v.x + Cos(k) * v.y ]

\* the scenario of C2: a root at (100, 100) and its child at local (50, 0)
\* turned a quarter
ScenarioBones ==
    << [ id |-> 1, name |-> BoneName(1), parentId |-> Null,
         position |-> [ x |-> 100, y |-> 100 ], rotation |-> 0, length |-> 50,
         radius |-> defaultRadius ],
       [ id |-> 2, name |-> BoneName(2), parentId |-> 1,
         position |-> [ x |-> 50, y |-> 0 ], rotation |-> 1, length |-> 30,
         radius |-> defaultRadius ] >>

\* C2: for every bone B with parent P, the world rotation of B is the world
\* rotation of P plus B.rotation, and the world position of B is the world
\* position of P plus B.position rotated by the world rotation of P; in the
\* scenario the child is at (150, 100), turned a quarter.
C2_ChildWorld ==
    /\ \A i \in 1..Len(bones) :
          bones[i].parentId \in BoneIds(bones) =>
             LET wB == getWorldTransform(bones, bones[i].id)
                 wP == getWorldTransform(bones, bones[i].parentId)
                 off == Rotated(bones[i].position, wP.rotation)
             IN  /\ wB.rotation = wP.rotation + bones[i].rotation
                 /\ wB.x = wP.x + off.x
                 /\ wB.y = wP.y + off.y
    /\ getWorldTransform(ScenarioBones, 2) = [ x |-> 150, y |-> 100, rotation |-> 1 ]

\* a child with an offset whose parent is turned in the world
C2_Witness ==
    \E i \in 1..Len(bones) :
        /\ bones[i].parentId \in BoneIds(bones)
        /\ bones[i].position # [ x |-> 0, y |-> 0 ]
        /\ bones[i].rotation % 4 # 0
        /\ getWorldTransform(bones, bones[i].parentId).rotation % 4 # 0

\* C3: for every bone B with no parent, the world transform of B is B's own
\* position and rotation.
C3_RootWorld ==
    \A i \in 1..Len(bones) :
        bones[i].parentId = Null =>
            getWorldTransform(bones, bones[i].id) =
                [ x |-> bones[i].position.x, y |-> bones[i].position.y,
                  rotation |-> bones[i].rotation ]

\* a root away from the origin and turned
C3_Witness ==
    \E i \in 1..Len(bones) :
        /\ bones[i].parentId = Null
        /\ bones[i].position # [ x |-> 0, y |-> 0 ]
        /\ bones[i].rotation % 4 # 0

\* C4: removeBone(id) removes exactly the bone id and its transitive
\* descendants; every other bone stays, with its fields and in its order.
C4_RemoveExact ==
    [][ lastOp'.op = "removeBone" =>
          LET gone == Subtree(bones, lastOp'.id)
          IN  bones' = SelectSeq(bones, LAMBDA b : b.id \notin gone) ]_vars

\* a bone was removed together with its child and its grandchild
C4_Witness ==
    /\ lastOp.op = "removeBone"
    /\ lastOp.changed = 3

\* a bone was removed with its child, and a bone before it stays
C4_Kept ==
    /\ lastOp.op = "removeBone"
    /\ lastOp.changed = 2
    /\ Len(bones) = 1

\* C5: removeBone(id) clears activeBoneId when the active bone is id or one
\* of its descendants, and leaves activeBoneId as it was otherwise.
C5_RemoveSelection ==
    [][ lastOp'.op = "removeBone" =>
          activeBoneId' = IF activeBoneId \in Subtree(bones, lastOp'.id)
                          THEN Null ELSE activeBoneId ]_vars

\* a descendant of the removed bone was active, and the selection was cleared
C5_Witness ==
    /\ lastOp.op = "removeBone"
    /\ lastOp.activeBoneId \notin {Null, lastOp.id}
    /\ activeBoneId = Null

\* another bone was active when a bone was removed, and it stays active
C5_Kept ==
    /\ lastOp.op = "removeBone"
    /\ activeBoneId # Null
    /\ activeBoneId = lastOp.activeBoneId
    /\ lastOp.changed > 0

\* C6: after a successful bind and any pose edits and frames, unbinding leaves
\* the vertex buffer equal to its content just before the bind, and leaves
\* no bind entries.
C6_UnbindRestores ==
    [][ lastOp'.op = "unbind" /\ IsSome(preBindVertices) =>
          /\ vertices' = Get(preBindVertices)
          /\ bindData' = None ]_vars

\* an unbind that moved vertices back after an edit of the pose
C6_Witness ==
    /\ lastOp.op = "unbind"
    /\ lastOp.changed > 0
    /\ editsLeft < MaxEdits
    /\ bindData = None

\* the scenario's root, moved and turned after a bind that knew it alone
ScenarioPosed ==
    << [ ScenarioBones[1] EXCEPT !.position = [ x |-> 0, y |-> 0 ], !.rotation = 3 ],
       ScenarioBones[2] >>

\* C7: after bind and changes of position and rotation, resetPose gives every
\* bone that existed at bind time its position and rotation of bind time,
\* and leaves the position and rotation of every other bone (a bone added
\* after the bind) as they are.
C7_ResetPose ==
  /\ resetPose(ScenarioPosed, Some(snapshotPose(<< ScenarioBones[1] >>))) = ScenarioBones
  /\ [][ lastOp'.op = "resetPose" /\ IsSome(bindTimeBones) =>
          /\ Len(bones') = Len(bones)
          /\ \A i \in 1..Len(bones) :
                LET b == bones'[i]
                    atBind == Get(bindTimeBones)
                IN  /\ b.id = bones[i].id
                    /\ IF b.id \in BoneIds(atBind)
                       THEN /\ b.position = BoneOf(atBind, b.id).position
                            /\ b.rotation = BoneOf(atBind, b.id).rotation
                       ELSE /\ b.position = bones[i].position
                            /\ b.rotation = bones[i].rotation ]_vars

\* resetPose took a bone back to its bind-time position
C7_Witness ==
    /\ lastOp.op = "resetPose"
    /\ lastOp.changed > 0
    /\ isBound
    /\ editsLeft = 0
    /\ \A i \in 1..Len(bones) :
          /\ bones[i].position = BoneOf(Get(bindTimeBones), bones[i].id).position
          /\ bones[i].rotation = BoneOf(Get(bindTimeBones), bones[i].id).rotation

\* the vertex at buffer index i (0-based) of verts
VertexAt(verts, i) == [ x |-> verts[i + 1], y |-> verts[i + 2] ]

\* the world origin of the bone named id
WorldOrigin(bs, id) ==
    [ x |-> getWorldTransform(bs, id).x, y |-> getWorldTransform(bs, id).y ]

\* the squared Euclidean distance of two points
DistSq(p, q) == (p.x - q.x) * (p.x - q.x) + (p.y - q.y) * (p.y - q.y)

\* C8: a successful bind (a mesh loaded, at least one bone) makes exactly one
\* bind entry per mesh vertex, with distinct vertex indexes, and the bone of
\* an entry is a bone whose world origin is nearest to the vertex, the
\* earliest such bone of the collection.
C8_BindNearest ==
    lastOp.op = "bind" /\ IsSome(currentMesh) /\ Len(bones) # 0 =>
        /\ IsSome(bindData)
        /\ Len(Get(bindData)) * 2 = Len(vertices)
        /\ \A k \in 1..Len(Get(bindData)) :
              LET e == Get(bindData)[k]
                  v == VertexAt(vertices, e.index)
              IN  /\ e.index = 2 * (k - 1)
                  /\ \E j \in 1..Len(bones) :
                        /\ bones[j].id = e.boneId
                        /\ \A m \in 1..Len(bones) :
                              DistSq(WorldOrigin(bones, bones[m].id), v)
                                  >= DistSq(WorldOrigin(bones, e.boneId), v)
                        /\ \A m \in 1..(j - 1) :
                              DistSq(WorldOrigin(bones, bones[m].id), v)
                                  > DistSq(WorldOrigin(bones, e.boneId), v)

\* a bind where two bones control vertices and a tie went to the earlier bone
C8_Witness ==
    /\ lastOp.op = "bind"
    /\ IsSome(bindData)
    /\ \E k, l \in 1..Len(Get(bindData)) : Get(bindData)[k].boneId # Get(bindData)[l].boneId
    /\ \E k \in 1..Len(Get(bindData)) :
          \E m \in 1..Len(bones) :
             /\ bones[m].id # Get(bindData)[k].boneId
             /\ DistSq(WorldOrigin(bones, bones[m].id),
                       VertexAt(vertices, Get(bindData)[k].index))
                  = DistSq(WorldOrigin(bones, Get(bindData)[k].boneId),
                           VertexAt(vertices, Get(bindData)[k].index))

\* where the vertex of entry e belongs: the bone's world position now plus
\* the bind-time offset (the bind-time vertex minus the bone's bind-time
\* world position, rotated by minus its bind-time world rotation) rotated by
\* the bone's world rotation now
Skinned(e) ==
    LET atBind == getWorldTransform(Get(bindTimeBones), e.boneId)
        v0 == VertexAt(Get(preBindVertices), e.index)
        local == Rotated([ x |-> v0.x - atBind.x, y |-> v0.y - atBind.y ], -atBind.rotation)
        now == getWorldTransform(bones, e.boneId)
        turned == Rotated(local, now.rotation)
    IN  [ x |-> now.x + turned.x, y |-> now.y + turned.y ]

\* every vertex bound to a bone that is present stands where Skinned puts it
AllSkinned ==
    \A k \in 1..Len(Get(bindData)) :
        LET e == Get(bindData)[k]
        IN  e.boneId \in BoneIds(bones) => VertexAt(vertices, e.index) = Skinned(e)

\* C9: while bound, after each frame every bound vertex is at its bone's
\* current world position plus the bind-time local offset rotated by the
\* bone's current world rotation; for a bone at (0,0) and a vertex at (10,0)
\* the offset is (10,0), and after a quarter turn the vertex is at (0,10).
C9_FrameSkins ==
    /\ localOffset(10, 0, [ x |-> 0, y |-> 0, rotation |-> 0 ]) = [ x |-> 10, y |-> 0 ]
    /\ deformedVertex([ x |-> 0, y |-> 0, rotation |-> 1 ], 10, 0) = [ x |-> 0, y |-> 10 ]
    /\ lastOp.op = "frame" /\ IsSome(bindData) /\ IsSome(preBindVertices) => AllSkinned

\* a frame has moved the vertices of a bone that was turned after the bind
C9_Witness ==
    /\ lastOp.op = "frame"
    /\ lastOp.changed > 0
    /\ IsSome(bindData)
    /\ IsSome(preBindVertices)
    /\ \E k \in 1..Len(Get(bindData)) :
          LET id == Get(bindData)[k].boneId
          IN  /\ id \in BoneIds(bones)
              /\ (getWorldTransform(bones, id).rotation
                     - getWorldTransform(Get(bindTimeBones), id).rotation) % 4 # 0

\* C10: a bind attempt with no mesh loaded or with no bone is a no-op: no
\* bind entries, the store does not become bound, no bind pose is taken,
\* the active tool stays.
C10_FailedBindNoOp ==
    [][ lastOp'.op = "bind" /\ (~IsSome(currentMesh) \/ Len(bones) = 0) =>
          /\ bindData' = None
          /\ UNCHANGED << isBound, bindPose, activeTool >> ]_vars

\* the store is bound with a bind pose, and the scene holds no bind entries
C10_BoundUnskinned ==
    /\ lastOp.op = "bind"
    /\ isBound
    /\ IsSome(bindPose)
    /\ ~IsSome(currentMesh)
    /\ bindData = None

\* C11: in every state, whatever the interleaving of sprite loads with bind
\* and unbind, a bound store with a loaded mesh has bind entries for the mesh.
C11_BoundMeshHasEntries ==
    isBound /\ IsSome(currentMesh) => IsSome(bindData)

\* the load that was pending at the bind has completed: the store is bound,
\* the mesh is loaded, and nothing binds it
C11_BoundMeshUnskinned ==
    /\ isBound
    /\ IsSome(bindPose)
    /\ IsSome(currentMesh)
    /\ pendingLoads = {}
    /\ bindData = None

\* C12: addBone called with a parent id that names no bone is a no-op: the
\* bones are unchanged and no orphan bone is made.
C12_AddBoneUnknownParent ==
    [][ lastOp'.op = "addBone" /\ lastOp'.id \notin BoneIds(bones) \cup {Null} =>
          bones' = bones ]_vars

\* addBone has appended a bone whose parent id names no bone
C12_Orphan ==
    /\ lastOp.op = "addBone"
    /\ lastOp.changed = 1
    /\ bones[Len(bones)].parentId \notin BoneIds(bones) \cup {Null}

\* getWorldTransform of every id that names no bone is the identity
UnknownIdentity ==
    \A id \in (1..(StoreIds + 1)) \ BoneIds(bones) :
        getWorldTransform(bones, id) = [ x |-> 0, y |-> 0, rotation |-> 0 ]

\* C13: for an id that names no bone, getWorldTransform returns (0, 0, 0) and
\* updateBone leaves the whole store unchanged; for an id that names a bone,
\* updateBone changes the given fields of that bone and nothing else.
C13_UnknownIdAndUpdate ==
    /\ UnknownIdentity
    /\ [][ /\ UnknownIdentity'
           /\ lastOp'.op = "updateBone" =>
                 /\ UNCHANGED << activeBoneId, activeTool, isBound, spriteDataUrl, bindPose >>
                 /\ Len(bones') = Len(bones)
                 /\ \A i \in 1..Len(bones) :
                       IF bones[i].id = lastOp'.id
                       THEN /\ DOMAIN bones'[i] = DOMAIN bones[i]
                            /\ \A f \in DOMAIN bones[i] :
                                  bones'[i][f] = IF f \in DOMAIN lastOp'.updates
                                                 THEN lastOp'.updates[f]
                                                 ELSE bones[i][f]
                       ELSE bones'[i] = bones[i] ]_vars

\* updateBone has turned and lengthened one of several bones and left the
\* rotation of another as it was
C13_Witness ==
    /\ lastOp.op = "updateBone"
    /\ lastOp.id \in BoneIds(bones)
    /\ Len(bones) >= 2
    /\ BoneOf(bones, lastOp.id).rotation = 2
    /\ BoneOf(bones, lastOp.id).length = 10
    /\ \E i \in 1..Len(bones) : bones[i].rotation = 0
    /\ editsLeft = 0

\* updateBone was called with an id that names no bone
C13_UnknownUpdated ==
    /\ lastOp.op = "updateBone"
    /\ lastOp.id \notin BoneIds(bones)
    /\ Len(bones) >= 1

\* the bind pose exists exactly when the store is bound
PoseIffBound == IsSome(bindPose) <=> isBound

\* C14: in every store state the bind pose exists if and only if isBound is
\* true: setBound(true) captures it from the bones, setBound(false) and
\* setSpriteDataUrl clear it, and while it exists its contents do not change.
C14_BindPoseLifecycle ==
    /\ PoseIffBound
    /\ [][ /\ PoseIffBound'
           /\ IsSome(bindPose) /\ IsSome(bindPose') => bindPose' = bindPose
           /\ lastOp'.op = "bind" =>
                 /\ IsSome(bindPose')
                 /\ DOMAIN Get(bindPose') = BoneIds(bones)
                 /\ \A i \in 1..Len(bones) :
                       Get(bindPose')[bones[i].id] =
                           [ position |-> bones[i].position, rotation |-> bones[i].rotation ]
           /\ lastOp'.op = "unbind" => bindPose' = None
           /\ spriteDataUrl' # spriteDataUrl => bindPose' = None ]_vars

\* the store is bound and a bone has left the pose the bind pose holds
C14_Witness ==
    /\ isBound
    /\ IsSome(bindPose)
    /\ \E i \in 1..Len(bones) :
          /\ bones[i].id \in DOMAIN Get(bindPose)
          /\ Get(bindPose)[bones[i].id] #
                 [ position |-> bones[i].position, rotation |-> bones[i].rotation ]

\* a step in which a loadSprite call completes and installs its mesh
LoadCompletes ==
    /\ pendingLoads' # pendingLoads
    /\ currentMesh' # currentMesh

C15_LoadedWithSelection ==
    /\ IsSome(currentMesh)
    /\ activeBoneId # Null
    /\ Len(bones) > 0

(***************************************************************************)
(* The pointer tools.                                                      *)
(***************************************************************************)
\* the tool a pointer-down runs
ToolInUse == IF isBound THEN "select" ELSE activeTool

\* the world end point of the bone named id
WorldEnd(bs, id) ==
    LET w == getWorldTransform(bs, id)
        tip == Rotated([ x |-> BoneOf(bs, id).length, y |-> 0 ], w.rotation)
    IN  [ x |-> w.x + tip.x, y |-> w.y + tip.y ]

\* the angles Math.atan2 returns for points on the axes, in quarter turns
Atan2Range == { -1, 0, 1, 2 }

\* C16: with the addBone tool and a pending anchor on an existing bone A, a
\* pointer-down at Q appends exactly one bone, with parent A, whose world
\* origin is the anchor point (A's world origin, or A's world end point when
\* the anchor was picked at A's end), whose world rotation is the angle from
\* the anchor point to Q (the bone points from the anchor at Q; 0 when Q is
\* the anchor point), and whose length is the distance from the anchor
\* point to Q; the pending anchor is cleared.
C16_AddBoneSecondClick ==
    [][ \A Q \in PointerPoints :
          ( /\ ToolInUse = "addBone"
            /\ IsSome(pendingJoint)
            /\ Get(pendingJoint).id \in BoneIds(bones)
            /\ PointerDown(Q) ) =>
          LET A == Get(pendingJoint).id
              anchor == IF Get(pendingJoint).attach = "end"
                        THEN WorldEnd(bones, A) ELSE WorldOrigin(bones, A)
              new == bones'[Len(bones')]
              world == getWorldTransform(bones', new.id)
          IN  /\ Len(bones') = Len(bones) + 1
              /\ SubSeq(bones', 1, Len(bones)) = bones
              /\ new.id \notin BoneIds(bones)
              /\ new.parentId = A
              /\ WorldOrigin(bones', new.id) = anchor
              /\ world.rotation \in Atan2Range
              /\ WorldEnd(bones', new.id) = [ x |-> Q.x, y |-> Q.y ]
              /\ (Q.x = anchor.x /\ Q.y = anchor.y) => world.rotation = 0
              /\ new.length * new.length = DistSq(anchor, Q)
              /\ new.length >= 0
              /\ pendingJoint' = None ]_vars

\* C16 witness: the addBone tool has attached a bone at the end point (10, 10)
\* of the root and pointed it at (10, 40)
C16_Witness ==
    /\ activeTool = "addBone"
    /\ ~IsSome(pendingJoint)
    /\ Len(bones) = 2
    /\ bones[2].parentId = 1
    /\ bones[2].position = [ x |-> bones[1].length, y |-> 0 ]
    /\ bones[2].length = 30
    /\ WorldOrigin(bones, 2) = [ x |-> 10, y |-> 10 ]
    /\ WorldEnd(bones, 2) = [ x |-> 10, y |-> 40 ]

\* C17: with the addJoint tool on an unbound skeleton, a pointer-down at P
\* appends exactly one bone, with no parent, position P, rotation 0 and
\* length 0, so that its world position is P; the bones that existed, the
\* selection and the drag state are as they were.
C17_AddJoint ==
    [][ \A P \in PointerPoints :
          ( /\ ~isBound
            /\ activeTool = "addJoint"
            /\ PointerDown(P) ) =>
          LET new == bones'[Len(bones')]
          IN  /\ Len(bones') = Len(bones) + 1
              /\ SubSeq(bones', 1, Len(bones)) = bones
              /\ new.id \notin BoneIds(bones)
              /\ new.parentId = Null
              /\ new.position = [ x |-> P.x, y |-> P.y ]
              /\ new.rotation = 0
              /\ new.length = 0
              /\ getWorldTransform(bones', new.id) = [ x |-> P.x, y |-> P.y, rotation |-> 0 ]
              /\ activeBoneId' = activeBoneId
              /\ UNCHANGED dragVars ]_vars

\* C17 witness: the addJoint tool has put a second root at (10, 40) while the
\* first root stayed selected and dragged
C17_Witness ==
    /\ ~isBound
    /\ activeTool = "addJoint"
    /\ Len(bones) = 2
    /\ bones[1] = InitBone(1, Null)
    /\ bones[2].parentId = Null
    /\ bones[2].position = [ x |-> 10, y |-> 40 ]
    /\ bones[2].rotation = 0
    /\ bones[2].length = 0
    /\ activeBoneId = 1
    /\ isDragging
    /\ dragBoneId = 1

\* the squared distance from p to the nearer of the origin and the end point
\* of the bone named id
NearSq(bs, id, p) ==
    LET o == DistSq(WorldOrigin(bs, id), p)
        e == DistSq(WorldEnd(bs, id), p)
    IN  IF e < o THEN e ELSE o

\* the bones with an origin or an end point within pick radius of p
Pickable(bs, p) == { id \in BoneIds(bs) : NearSq(bs, id, p) < maxDist * maxDist }

\* C18: with the select tool, a pointer-down at P within pick radius of some
\* bone's origin or end point makes a bone nearest to P the active bone and
\* starts a drag of that bone from P, in mode move when it has no parent and
\* in mode rotate when it has one; a pointer-down with no origin or end point
\* within pick radius sets activeBoneId to null and leaves the drag state as
\* it was.
C18_SelectDown ==
    [][ \A P \in PointerPoints :
          ( /\ ToolInUse = "select"
            /\ PointerDown(P) ) =>
          IF Pickable(bones, P) # {}
          THEN /\ activeBoneId' \in Pickable(bones, P)
               /\ \A id \in BoneIds(bones) :
                      NearSq(bones, activeBoneId', P) <= NearSq(bones, id, P)
               /\ isDragging'
               /\ dragBoneId' = activeBoneId'
               /\ dragStartPos' = Some([ x |-> P.x, y |-> P.y ])
               /\ dragMode' = IF BoneOf(bones, activeBoneId').parentId = Null
                              THEN "move" ELSE "rotate"
          ELSE /\ activeBoneId' = Null
               /\ UNCHANGED dragVars ]_vars

\* C18 witness: the select tool has picked the child bone at its end point
\* (10, 40), out of pick radius of the root, and drags it in mode rotate
C18_Witness ==
    /\ ToolInUse = "select"
    /\ Len(bones) = 2
    /\ bones[2].parentId = 1
    /\ activeBoneId = 2
    /\ isDragging
    /\ dragBoneId = 2
    /\ dragMode = "rotate"
    /\ dragStartPos = Some([ x |-> 10, y |-> 40 ])
    /\ Pickable(bones, [ x |-> 10, y |-> 40 ]) = {2}

\* a drag of the bone named id is in progress in the given mode
Dragging(id, mode) ==
    /\ isDragging
    /\ dragMode = mode
    /\ dragBoneId = id
    /\ IsSome(dragStart)
    /\ Get(dragStart).id = id
    /\ id \in BoneIds(bones)

\* C19: during a move drag of a root bone, after every pointer-move at M the
\* bone's position is its position at pointer-down plus (M minus the
\* pointer-down point), whatever pointer-moves came between; no other field
\* of the bone changes.
C19_MoveDrag ==
    [][ \A M \in PointerPoints : \A id \in BoneIds(bones) :
          ( /\ Dragging(id, "move")
            /\ BoneOf(bones, id).parentId = Null
            /\ PointerMove(M) ) =>
          LET start == Get(dragStart)
          IN  BoneOf(bones', id) =
                  [ BoneOf(bones, id) EXCEPT
                      !.position = [ x |-> start.position.x + (M.x - start.downPos.x),
                                     y |-> start.position.y + (M.y - start.downPos.y) ] ] ]_vars

\* C19 witness: a root picked at its end point (10, 10) and dragged to
\* (10, 40) and then back to (10, 0) lies 10 below where it was, not 20 above
C19_Witness ==
    /\ Dragging(1, "move")
    /\ Get(dragStart).moves = 2
    /\ Get(dragStart).position = [ x |-> 10, y |-> 0 ]
    /\ Get(dragStart).downPos = [ x |-> 10, y |-> 10 ]
    /\ bones[1].position = [ x |-> 10, y |-> -10 ]

\* the angle from the world origin of the bone named id to the point p
PointerAngle(bs, id, p) ==
    angleBetween(WorldOrigin(bs, id).x, WorldOrigin(bs, id).y, p.x, p.y)

\* C20: during a rotate drag of a child bone, a pointer-move at M adds to the
\* bone's local rotation the angle from the bone's world origin to M minus
\* the angle the previous pointer event of the drag stored, changes no other
\* field of the bone, and stores the angle to M; the local rotation then
\* differs from its value at pointer-down by the angle to M minus the angle
\* to the pointer-down point.
C20_RotateDrag ==
    [][ \A M \in PointerPoints : \A id \in BoneIds(bones) :
          ( /\ Dragging(id, "rotate")
            /\ BoneOf(bones, id).parentId # Null
            /\ PointerMove(M) ) =>
          LET start == Get(dragStart)
              angle == PointerAngle(bones, id, M)
          IN  /\ BoneOf(bones', id) =
                     [ BoneOf(bones, id) EXCEPT !.rotation = @ + (angle - dragStartAngle) ]
              /\ dragStartAngle' = angle
              /\ WorldOrigin(bones', id) = WorldOrigin(bones, id)
              /\ BoneOf(bones', id).rotation - start.rotation =
                     angle - PointerAngle(bones, id, start.downPos) ]_vars

\* C20 witness: a child with world origin (10, 10), picked at (10, 40) with
\* local rotation 0 and the pointer a quarter turn up, then dragged to
\* (10, 0) and to (10, 10) where the pointer angle is 0, has local rotation -1
C20_Witness ==
    /\ Dragging(2, "rotate")
    /\ bones[2].parentId = 1
    /\ Get(dragStart).moves = 2
    /\ Get(dragStart).rotation = 0
    /\ Get(dragStart).downPos = [ x |-> 10, y |-> 40 ]
    /\ WorldOrigin(bones, 2) = [ x |-> 10, y |-> 10 ]
    /\ dragStartAngle = 0
    /\ bones[2].rotation = -1

(***************************************************************************)
(* findClosestBone as a function of the skeleton and the query point.      *)
(***************************************************************************)
\* query points: on the root's first origin and end point, midway between
\* them, and further along the line of the pointer positions
QueryPoints == { [ x |-> 10, y |-> y ] : y \in { -10, 0, 5, 10, 25, 30, 40 } }

\* the endpoints findClosestBone looks at, in the order it looks at them:
\* bone i's origin is 2 * i - 1, its end point (when length > 0) is 2 * i
Endpoints(bs) ==
    { k \in 1..(2 * Len(bs)) : k % 2 = 1 \/ bs[k \div 2].length > 0 }

EndpointBone(bs, k) == bs[(k + 1) \div 2]

EndpointAttach(k) == IF k % 2 = 1 THEN "origin" ELSE "end"

\* the squared distance from endpoint k to p
EndpointDistSq(bs, k, p) ==
    IF k % 2 = 1 THEN DistSq(WorldOrigin(bs, EndpointBone(bs, k).id), p)
                 ELSE DistSq(WorldEnd(bs, EndpointBone(bs, k).id), p)

\* the endpoints at distance strictly less than maxDist from p
InRadius(bs, p) == { k \in Endpoints(bs) : EndpointDistSq(bs, k, p) < maxDist * maxDist }

\* C21: findClosestBone returns null when no endpoint (a bone's world origin,
\* or its world end point when its length is positive) is at distance
\* strictly less than 20 from the query point; otherwise it returns the bone
\* and the attachment of the endpoint of minimum distance among those, the
\* endpoint scanned first on a tie: the earlier bone of the collection, and
\* within one bone the origin before the end point.
C21_FindClosestBone ==
    \A p \in QueryPoints :
        LET near == InRadius(bones, p)
            found == findClosestBone(bones, p.x, p.y)
        IN  IF near = {}
            THEN found = None
            ELSE \E k \in near :
                    /\ \A j \in near :
                          \/ EndpointDistSq(bones, k, p) < EndpointDistSq(bones, j, p)
                          \/ /\ EndpointDistSq(bones, k, p) = EndpointDistSq(bones, j, p)
                             /\ k <= j
                    /\ found = Some([ id |-> EndpointBone(bones, k).id,
                                      attach |-> EndpointAttach(k) ])

\* C21 witness: a child attached at the root's origin (10, 0): at (10, 0)
\* the origins of both bones tie and the root, scanned first, is returned;
\* at (10, 5) the root's origin and end point tie and the origin is returned;
\* at (10, 40) nothing is within 20
C21_Witness ==
    /\ Len(bones) = 2
    /\ bones[2].parentId = 1
    /\ WorldOrigin(bones, 1) = [ x |-> 10, y |-> 0 ]
    /\ WorldOrigin(bones, 2) = [ x |-> 10, y |-> 0 ]
    /\ WorldEnd(bones, 1) = [ x |-> 10, y |-> 10 ]
    /\ WorldEnd(bones, 2) = [ x |-> 10, y |-> 10 ]
    /\ findClosestBone(bones, 10, 0) = Some([ id |-> 1, attach |-> "origin" ])
    /\ findClosestBone(bones, 10, 5) = Some([ id |-> 1, attach |-> "origin" ])
    /\ findClosestBone(bones, 10, 40) = None

(***************************************************************************)
(* Gestures: the drag state between pointer events.                        *)
(***************************************************************************)
\* the drag state pointerup leaves: not dragging, no dragged bone, no stored
\* pointer position and no stored bone position
DragCleared ==
    /\ ~isDragging
    /\ dragBoneId = Null
    /\ dragStartPos = None
    /\ dragBoneStartPos = None

\* C22: pointerup and pointerupoutside, from any state, leave one and the same
\* drag state, the cleared one (not dragging, no dragged bone, no stored
\* pointer position, no stored bone position) with the mode and the angle
\* they found; while no drag is in progress a pointer-move changes no bone,
\* and a drag begins only by a pointer-down of the select tool at a point
\* within pick radius of a bone.
C22_PointerUpClears ==
    [][ /\ (PointerUp \/ PointerUpOutside) =>
              /\ DragCleared'
              /\ dragVars' = << FALSE, dragMode, dragStartAngle, None, None, Null >>
        /\ \A M \in Points : (~isDragging /\ PointerMove(M)) => bones' = bones
        /\ (~isDragging /\ isDragging') =>
              \E pos \in Points :
                  /\ PointerDown(pos)
                  /\ ToolInUse = "select"
                  /\ Pickable(bones, pos) # {}
                  /\ dragBoneId' \in Pickable(bones, pos) ]_vars

\* C22 witness: a drag of a root has begun (only that sets the mode move) and
\* the pointer has been released, the root still selected, on a bound skeleton
C22_Witness ==
    /\ DragCleared
    /\ dragMode = "move"
    /\ isBound
    /\ activeBoneId \in BoneIds(bones)
    /\ BoneOf(bones, activeBoneId).parentId = Null

\* C23: after any pointer-down, a drag is in progress only on the bone that
\* pointer-down picked: drag state left by an earlier pointer-down that no
\* pointerup followed is superseded, so that later pointer-moves do not
\* modify the bone of the earlier gesture.
C23_PointerDownSupersedes ==
    [][ \A pos \in PointerPoints :
          PointerDown(pos) =>
              ( isDragging' =>
                  /\ ToolInUse = "select"
                  /\ dragBoneId' \in Pickable(bones, pos) ) ]_vars

\* C23 witness: the root was picked and, with no pointerup, a later
\* pointer-down of the select tool picked nothing and cleared the selection;
\* the drag of the root is still in progress and a pointer-move has since
\* moved the root
C23_StaleDrag ==
    /\ ToolInUse = "select"
    /\ isDragging
    /\ dragBoneId = 1
    /\ activeBoneId = Null
    /\ Len(bones) = 1
    /\ Get(dragStart).moves = MaxPointerMoves
    /\ bones[1].position # Get(dragStart).position

\* C24: whenever the addBone tool is entered (the tool in use becomes
\* addBone, by a tool button or by the end of a bind/unbind cycle) there is
\* no pending anchor, and a pointer-down of the addBone tool with no pending
\* anchor creates no bone: so the first pointer-down of every addBone session
\* only selects an anchor, and a bone is created only after an anchor was
\* selected in the same session.
C24_AddBoneSession ==
    [][ /\ (ToolInUse # "addBone" /\ ToolInUse' = "addBone") => ~IsSome(pendingJoint')
        /\ \A pos \in PointerPoints :
              (ToolInUse = "addBone" /\ ~IsSome(pendingJoint) /\ PointerDown(pos)) =>
                  bones' = bones ]_vars

\* C24 witness: an anchor selected in an addBone session is still pending
\* after the switch to the select tool
C24_StaleAnchor ==
    /\ ToolInUse = "select"
    /\ IsSome(pendingJoint)
    /\ Get(pendingJoint).id \in BoneIds(bones)

\* C25: with the addBone tool and no pending anchor, a pointer-down with no
\* bone origin or end point within pick radius does nothing: no bone is
\* created, no anchor becomes pending, and the bones, the selection and the
\* drag state are as they were.
C25_AddBoneMiss ==
    [][ \A pos \in PointerPoints :
          ( /\ ToolInUse = "addBone"
            /\ ~IsSome(pendingJoint)
            /\ Pickable(bones, pos) = {}
            /\ PointerDown(pos) ) =>
          /\ bones' = bones
          /\ ~IsSome(pendingJoint')
          /\ activeBoneId' = activeBoneId
          /\ UNCHANGED dragVars ]_vars

\* C25 witness: the addBone tool with no pending anchor, the root selected
\* and dragged, and the pointer position (10, 40) out of pick radius of
\* every endpoint: the pointer-down there leaves this state as it is
C25_Witness ==
    /\ ToolInUse = "addBone"
    /\ ~IsSome(pendingJoint)
    /\ Pickable(bones, [ x |-> 10, y |-> 40 ]) = {}
    /\ activeBoneId = 1
    /\ isDragging
    /\ dragBoneId = 1

\* the bone being dragged has been removed
DraggedBoneRemoved ==
    /\ isDragging
    /\ dragBoneId # Null
    /\ dragBoneId \notin BoneIds(bones)

\* C26: once the bone being dragged has been removed, every pointer-move of
\* the drag leaves the bone collection unchanged (no bone is modified, none
\* is created), and the frame callback can still run.
C26_DragOfRemovedBone ==
    [][ /\ \A M \in Points : (DraggedBoneRemoved /\ PointerMove(M)) => bones' = bones
        /\ DraggedBoneRemoved => ENABLED Frame ]_vars

\* C26 witness: the dragged bone has been removed, another bone remains and
\* the budget of edits would still let a pointer-move change a bone
C26_Witness ==
    /\ DraggedBoneRemoved
    /\ Len(bones) > 0
    /\ editsLeft > 0
    /\ IsSome(dragStartPos)

(***************************************************************************)
(* C27: a generation request handled while the skeleton is unbound or      *)
(* while no sprite is set performs no export: the effect records a         *)
(* generation error, resets isGenerating to false, leaves                  *)
(* generatedSpriteUrl as it was and has no export awaiting its result.     *)
(***************************************************************************)
C27_GenerateNotReady ==
    [][ ((spriteDataUrl = NullUrl \/ ~isBound) /\ GenerationEffect) =>
            /\ IsSome(generationError')
            /\ isGenerating' = FALSE
            /\ generatedSpriteUrl' = generatedSpriteUrl
            /\ exportRun' = None ]_vars

\* the second request was handled after unbinding: the image of the first
\* request is still stored, next to the error
C27_Witness ==
    /\ generationRequestId = MaxRequests
    /\ effectRequestId = generationRequestId
    /\ spriteDataUrl # NullUrl
    /\ ~isBound
    /\ generationError = Some(BindFirst)
    /\ IsSome(generatedSpriteUrl)
    /\ ~isGenerating
    /\ exportRun = None

(***************************************************************************)
(* C28: for every texture coordinate (u, v) of the closed unit square and  *)
(* every resolution R >= 1, the cell indices floor(u * R) and floor(v * R) *)
(* the shader computes both lie in 0..R-1.                                 *)
(***************************************************************************)
C28_SnappedCellInGrid ==
    IsSome(snappedCell) =>
        /\ Get(snappedCell).x \in 0..(Get(snappedCell).resolution - 1)
        /\ Get(snappedCell).y \in 0..(Get(snappedCell).resolution - 1)

\* the fragment at u = 1 is given the cell index R, one past the last cell
C28_CellPastTheGrid ==
    /\ vTextureCoord.u = UvSteps
    /\ IsSome(snappedCell)
    /\ Get(snappedCell).resolution = uResolution
    /\ Get(snappedCell).x = uResolution

(***************************************************************************)
(* C29: every mesh produced by a completed sprite load has the pixel-snap  *)
(* filter attached, with the current virtual resolution.                   *)
(***************************************************************************)
C29_LoadedMeshIsFiltered ==
    IsSome(currentMesh) => meshFilters = << PixelSnapFilter(virtualResolution) >>

\* a frame of a bound skeleton has run on a loaded mesh that has no filter
C29_UnfilteredFrame ==
    /\ IsSome(currentMesh)
    /\ meshFilters = << >>
    /\ isBound
    /\ lastOp.op = "frame"

\* the drawing d shows bone b of the skeleton bs: its world origin, its world
\* end point, and the highlight when b is the bone activeId
Shows(d, bs, b, activeId) ==
    /\ d.id = b.id
    /\ [ x |-> d.x, y |-> d.y ] =
           [ x |-> getWorldTransform(bs, b.id).x, y |-> getWorldTransform(bs, b.id).y ]
    /\ [ x |-> d.endX, y |-> d.endY ] = WorldEnd(bs, b.id)
    /\ d.isActive = (b.id = activeId)

RotationDeltas == { -1, 1, 2 }

\* the world origin of the bone named a as a point
WorldPoint(bs, a) == [ x |-> getWorldTransform(bs, a).x, y |-> getWorldTransform(bs, a).y ]

\* p turned by k quarter turns about the point c
RotatedAbout(p, c, k) ==
    LET r == Rotated([ x |-> p.x - c.x, y |-> p.y - c.y ], k)
    IN  [ x |-> c.x + r.x, y |-> c.y + r.y ]

\* after differs from before in the rotation field of the bone named id, by
\* delta, and in nothing else
OnlyRotationOf(before, after, id, delta) ==
    /\ Len(after) = Len(before)
    /\ \A i \in 1..Len(before) :
          after[i] = IF before[i].id = id
                     THEN [ before[i] EXCEPT !.rotation = @ + delta ] ELSE before[i]

\* forward kinematics of turning the bone named id by delta: its subtree
\* turns about its world origin, the other bones stay
TurnsSubtree(before, after, id, delta) ==
    \A a \in BoneIds(before) :
        IF a \in Subtree(before, id)
        THEN /\ getWorldTransform(after, a).rotation
                   = getWorldTransform(before, a).rotation + delta
             /\ WorldPoint(after, a)
                   = RotatedAbout(WorldPoint(before, a), WorldPoint(before, id), delta)
        ELSE getWorldTransform(after, a) = getWorldTransform(before, a)

(***************************************************************************)
(* C31: changing one bone's local rotation by delta, by updateBone (the    *)
(* call a rotate drag and the property panel make) or by applyFKRotation,  *)
(* writes only that bone's rotation field; the world rotation of the bone  *)
(* and of every descendant changes by delta, every descendant's world      *)
(* position is rotated by delta about the bone's world origin, and the     *)
(* world transform of every bone outside the subtree is unchanged.         *)
(***************************************************************************)
C31_RotationPropagates ==
    \A id \in BoneIds(bones), delta \in RotationDeltas :
        LET turned == updateBone(bones, id, [ rotation |-> BoneOf(bones, id).rotation + delta ])
        IN  /\ applyFKRotation(bones, id, delta) = turned
            /\ OnlyRotationOf(bones, turned, id, delta)
            /\ TurnsSubtree(bones, turned, id, delta)

\* the panel has turned a bone that has a grandchild: the grandchild is
\* away from where it started, a bone outside the subtree exists
C31_Witness ==
    /\ editsLeft < MaxPoseEdits
    /\ \E i, j, k \in 1..Len(bones) :
          /\ bones[j].parentId = bones[i].id
          /\ bones[k].parentId = bones[j].id
          /\ bones[i].rotation # InitBone(1, Null).rotation
          /\ WorldPoint(bones, bones[k].id)
                # WorldPoint([ bones EXCEPT ![i].rotation = InitBone(1, Null).rotation ],
                             bones[k].id)

\* the fields of a bone that are not its pose
SamePoseFree(b, c) ==
    /\ b.id = c.id
    /\ b.name = c.name
    /\ b.parentId = c.parentId
    /\ b.length = c.length
    /\ b.radius = c.radius

\* a snapshot that holds the first n bones of bs only, in another pose
PartialPose(bs, n) ==
    [ id \in BoneIds(SubSeq(bs, 1, n)) |->
        [ position |-> [ x |-> 0, y |-> 0 ], rotation |-> 3 ] ]

\* resetPose with a snapshot of the first n bones leaves the later bones
\* alone and, of the first n, changes position and rotation only
ResetsOnlySnapshot(bs, n) ==
    LET reset == resetPose(bs, Some(PartialPose(bs, n)))
    IN  /\ Len(reset) = Len(bs)
        /\ \A i \in 1..Len(bs) :
              /\ SamePoseFree(reset[i], bs[i])
              /\ i > n => reset[i] = bs[i]
              /\ i <= n => /\ reset[i].position = [ x |-> 0, y |-> 0 ]
                           /\ reset[i].rotation = 3

(***************************************************************************)
(* C32: resetPose changes nothing when there is no bind-pose snapshot;     *)
(* when there is one it changes only the position and rotation of bones    *)
(* present in the snapshot, never the set of bones, their order, a bone's  *)
(* id, name, parentId, length or radius, the selection, the tool or the    *)
(* bound state.                                                            *)
(***************************************************************************)
C32_ResetPoseFrame ==
  /\ [](\A n \in 0..Len(bones) : ResetsOnlySnapshot(bones, n))
  /\ [][ ResetPose =>
          /\ ~IsSome(bindPose) => bones' = bones
          /\ Len(bones') = Len(bones)
          /\ \A i \in 1..Len(bones) :
                /\ SamePoseFree(bones'[i], bones[i])
                /\ IsSome(bindPose) /\ bones[i].id \notin DOMAIN Get(bindPose)
                       => bones'[i] = bones[i]
          /\ UNCHANGED << activeBoneId, activeTool, isBound, spriteDataUrl, bindPose, nextId >> ]_vars

\* resetPose has put back the pose of a bound skeleton whose selected bone
\* the panel had renamed or resized first: the other field is as edited
C32_Witness ==
    /\ lastOp.op = "resetPose"
    /\ lastOp.changed > 0
    /\ isBound
    /\ \E i \in 1..Len(bones) :
          /\ bones[i].id = activeBoneId
          /\ bones[i].name = Renamed \/ bones[i].length # InitBone(1, Null).length

(***************************************************************************)
(* C33: while bound, every bind entry's controlling bone id names a bone   *)
(* of the skeleton, so no vertex is deformed with the identity transform   *)
(* of a missing bone.                                                      *)
(***************************************************************************)
C33_BindEntriesNameBones ==
    isBound /\ IsSome(bindData) =>
        \A k \in 1..Len(Get(bindData)) : Get(bindData)[k].boneId \in BoneIds(bones)

\* a bone was deleted while bound, and a frame has put a vertex bound to it
\* at its bare local offset, away from where it was before the bind
C33_DeformedByMissingBone ==
    /\ isBound
    /\ IsSome(bindData)
    /\ IsSome(preBindVertices)
    /\ lastOp.op = "frame"
    /\ \E k \in 1..Len(Get(bindData)) :
          LET e == Get(bindData)[k]
          IN  /\ e.boneId \notin BoneIds(bones)
              /\ VertexAt(vertices, e.index) = [ x |-> e.localX, y |-> e.localY ]
              /\ VertexAt(vertices, e.index) # VertexAt(Get(preBindVertices), e.index)

(***************************************************************************)
(* C34: under any interleaving of sprite-load requests and their           *)
(* completions the sprite container holds at most one mesh, and once no    *)
(* load is pending the current mesh is the one created for the sprite      *)
(* requested last.                                                         *)
(***************************************************************************)
C34_OneMeshOfLastLoad ==
    /\ Cardinality(spriteContainer) <= 1
    /\ pendingLoads = {} /\ loadsStarted > 0 => currentMesh = Some(loadsStarted)

\* both loads have completed, the later request first: two meshes are in
\* the container and the current one shows the sprite chosen before
C34_TwoMeshesStaleSprite ==
    /\ pendingLoads = {}
    /\ loadsStarted >= 2
    /\ Cardinality(spriteContainer) >= 2
    /\ IsSome(currentMesh)
    /\ Get(currentMesh) < loadsStarted

(***************************************************************************)
(* C35: while the store is bound, pointer events are handled as the select *)
(* tool whatever the stored active tool, so no pointer-down creates a bone *)
(* or sets a pending anchor; while bound the set of bones can only shrink. *)
(***************************************************************************)
C35_BoundIsSelect ==
    [][ isBound =>
          /\ \A pos \in PointerPoints :
                PointerDown(pos) => /\ bones' = bones
                                    /\ nextId' = nextId
                                    /\ pendingJoint' = pendingJoint
          /\ BoneIds(bones') \subseteq BoneIds(bones)
          /\ Len(bones') <= Len(bones) ]_vars

\* bound with an add tool stored and room for a bone: the bone a
\* pointer-down picked is selected and dragged, no bone or anchor was made
C35_Witness ==
    /\ isBound
    /\ activeTool \in {"addJoint", "addBone"}
    /\ nextId <= MaxBones
    /\ isDragging
    /\ IsSome(dragStart)
    /\ activeBoneId = Get(dragStart).id
    /\ ~IsSome(pendingJoint)

(***************************************************************************)
(* C36: after any sequence of pointer gestures, sidebar selections,        *)
(* removeBone, bind, unbind, resetPose and sprite loads, activeBoneId is   *)
(* null or the id of a bone in the collection.                             *)
(***************************************************************************)
C36_ActiveBoneExists ==
    activeBoneId = Null \/ activeBoneId \in BoneIds(bones)

\* the selected bone went with the removal of its ancestor, and the
\* selection with it
C36_Witness ==
    /\ lastOp.op = "removeBone"
    /\ lastOp.activeBoneId # Null
    /\ lastOp.activeBoneId # lastOp.id
    /\ lastOp.activeBoneId \notin BoneIds(bones)
    /\ lastOp.changed > 1
    /\ activeBoneId = Null

\* after differs from before in the one field of the bone named id, or not
\* at all
OnlyFieldOf(before, after, id, field) ==
    /\ Len(after) = Len(before)
    /\ \A i \in 1..Len(before) :
          /\ before[i].id # id => after[i] = before[i]
          /\ \A f \in DOMAIN before[i] : f # field => after[i][f] = before[i][f]

(***************************************************************************)
(* C37: a pointer-move changes the store only while a drag is in progress, *)
(* and then it changes exactly one field of exactly the dragged bone:      *)
(* position in move mode, rotation in rotate mode.  It never changes       *)
(* another bone, the bone set, the selection, the tool, the bound state or *)
(* the bind-pose snapshot.                                                 *)
(***************************************************************************)
C37_PointerMoveFrame ==
    [][ \A pos \in PointerPoints :
          PointerMove(pos) =>
            /\ UNCHANGED << activeBoneId, activeTool, isBound, spriteDataUrl, bindPose, nextId >>
            /\ bones' # bones => /\ isDragging
                                  /\ dragBoneId \in BoneIds(bones)
            /\ OnlyFieldOf(bones, bones', dragBoneId,
                           IF dragMode = "move" THEN "position" ELSE "rotation") ]_vars

\* bound, with a snapshot: a child bone has been turned by a rotate drag
\* and the root is where the snapshot has it
C37_Witness ==
    /\ isBound
    /\ IsSome(bindPose)
    /\ Dragging(dragBoneId, "rotate")
    /\ IsSome(dragStart)
    /\ Get(dragStart).moves > 0
    /\ \E i \in 1..Len(bones) :
          /\ bones[i].id = dragBoneId
          /\ bones[i].id \in DOMAIN Get(bindPose)
          /\ bones[i].rotation # Get(bindPose)[bones[i].id].rotation
          /\ bones[i].position = Get(bindPose)[bones[i].id].position

\* bound, with a snapshot: the root has been moved by a move drag, its
\* rotation is the snapshot's
C37_MovedWitness ==
    /\ isBound
    /\ IsSome(bindPose)
    /\ Dragging(dragBoneId, "move")
    /\ \E i \in 1..Len(bones) :
          /\ bones[i].id = dragBoneId
          /\ bones[i].position # Get(bindPose)[bones[i].id].position
          /\ bones[i].rotation = Get(bindPose)[bones[i].id].rotation

\* the buffer updateDeformation leaves when run on verts with the bones bs
Deformed(bs, verts) == updateDeformation(bs, currentMesh, bindData, verts)

\* every bone has the position and rotation the snapshot holds for it
AtBindPose ==
    /\ IsSome(bindPose)
    /\ \A i \in 1..Len(bones) :
          /\ bones[i].id \in DOMAIN Get(bindPose)
          /\ bones[i].position = Get(bindPose)[bones[i].id].position
          /\ bones[i].rotation = Get(bindPose)[bones[i].id].rotation

(***************************************************************************)
(* C38: deformation is a function of the bind entries and the current pose *)
(* only: run twice without a pose change it leaves the buffer as the first *)
(* run left it; its result does not depend on the buffer it starts from    *)
(* (so a bone back at an earlier pose has its vertices back at their       *)
(* earlier positions, whatever came between); and run with every bone at   *)
(* its bind-time pose, directly after the bind or after resetPose, it      *)
(* yields the vertex positions of before the bind.                         *)
(***************************************************************************)
C38_DeformationOfPose ==
    isBound /\ IsSome(currentMesh) /\ IsSome(bindData) /\ IsSome(preBindVertices) =>
        /\ Deformed(bones, Deformed(bones, vertices)) = Deformed(bones, vertices)
        /\ Deformed(bones, vertices) = Deformed(bones, Get(preBindVertices))
        /\ Deformed(Get(bindTimeBones), vertices) = Get(preBindVertices)
        /\ AtBindPose => Deformed(bones, vertices) = Get(preBindVertices)

\* a bone was deleted while bound: the bones left are all at their bind
\* pose, a frame has run, and the buffer is not the one of before the bind
C38_BindPoseNotRestored ==
    /\ isBound
    /\ IsSome(currentMesh)
    /\ IsSome(bindData)
    /\ IsSome(preBindVertices)
    /\ Len(bones) > 0
    /\ AtBindPose
    /\ lastOp.op = "frame"
    /\ vertices = Deformed(bones, vertices)
    /\ vertices # Get(preBindVertices)
    /\ \E k \in 1..Len(Get(bindData)) : Get(bindData)[k].boneId \notin BoneIds(bones)

(***************************************************************************)
(* C39: every requestGenerate is eventually followed by a state with       *)
(* isGenerating false, whether the export succeeds, fails, is rejected as  *)
(* not ready, or is superseded by a later request or a new sprite; and     *)
(* the generation request id strictly increases with each request.         *)
(***************************************************************************)
C39_GenerateSettles ==
    /\ isGenerating ~> ~isGenerating
    /\ [][ RequestGenerate => /\ isGenerating'
                              /\ generationRequestId' > generationRequestId ]_vars
    /\ [][ generationRequestId' >= generationRequestId ]_vars

\* the last of the requests has been answered with an image, its export
\* settled and nothing left running
C39_Witness ==
    /\ generationRequestId = MaxRequests
    /\ effectRequestId = generationRequestId
    /\ exportRun = None
    /\ ~isGenerating
    /\ isBound
    /\ IsSome(currentMesh)
    /\ generationError = None
    /\ generatedSpriteUrl = Some(toDataURL(vertices))

====
